---- MODULE Spec2Model ----
(***************************************************************************)
(* The tool-invocation loop of the Vespucci.ai client                      *)
(* (src/client/mcp_client.py, MCPClient.process_query) together with the   *)
(* pieces it calls: the completion request of                              *)
(* src/client/language_model.py, the call-syntax regular expression, the   *)
(* argument decoding (json.loads), the result formatter and the            *)
(* conversation log writer.                                                *)
(*                                                                         *)
(* A text (a Python str) is a sequence of one-character strings, so that   *)
(* scanning, stripping, searching and concatenation are computed and not   *)
(* assumed.  The texts of the model hold no backslash, no number with a    *)
(* fraction and no non-ASCII letter.                                       *)
(***************************************************************************)
EXTENDS Integers, Sequences, FiniteSets, TLC

(***************************************************************************)
(* Bounds of the model.                                                    *)
(***************************************************************************)
\* completion requests one process_query call may make before the model stops it
MaxRounds == 2
\* seconds the wall clock may advance (the log file name has a one-second resolution)
MaxClock == 1

(***************************************************************************)
(* Characters and elementary string operations.                            *)
(***************************************************************************)
LowerChars == <<"a","b","c","d","e","f","g","h","i","j","k","l","m",
                "n","o","p","q","r","s","t","u","v","w","x","y","z">>
UpperChars == <<"A","B","C","D","E","F","G","H","I","J","K","L","M",
                "N","O","P","Q","R","S","T","U","V","W","X","Y","Z">>
DigitChars == <<"0","1","2","3","4","5","6","7","8","9">>

Range(s) == {s[i] : i \in DOMAIN s}

\* \w of Python's re on the ASCII characters of the model
WordChars == Range(LowerChars) \cup Range(UpperChars) \cup Range(DigitChars) \cup {"_"}

\* str.strip() removes these (the whitespace the model's texts can hold)
WhitespaceChars == {" ", "\t", "\n", "\r", "\f"}

\* str.lower() on one character
LowerChar(ch) ==
    IF \E i \in DOMAIN UpperChars : UpperChars[i] = ch
    THEN LowerChars[CHOOSE i \in DOMAIN UpperChars : UpperChars[i] = ch]
    ELSE ch

\* str.lower()
Lower(t) == [i \in DOMAIN t |-> LowerChar(t[i])]

\* t[i-1:].startswith(p), with i counted from 1
StartsWithAt(t, i, p) ==
    /\ i + Len(p) - 1 <= Len(t)
    /\ SubSeq(t, i, i + Len(p) - 1) = p

\* p in t
Contains(t, p) == \E i \in 1..(Len(t) - Len(p) + 1) : StartsWithAt(t, i, p)

RECURSIVE LStripFrom(_, _)
LStripFrom(t, i) ==
    IF i <= Len(t) /\ t[i] \in WhitespaceChars THEN LStripFrom(t, i + 1) ELSE i

RECURSIVE RStripFrom(_, _)
RStripFrom(t, j) ==
    IF j >= 1 /\ t[j] \in WhitespaceChars THEN RStripFrom(t, j - 1) ELSE j

\* str.strip()
Strip(t) == SubSeq(t, LStripFrom(t, 1), RStripFrom(t, Len(t)))

RECURSIVE Join(_, _)
\* sep.join(parts)
Join(sep, parts) ==
    IF parts = <<>> THEN <<>>
    ELSE IF Len(parts) = 1 THEN parts[1]
    ELSE parts[1] \o sep \o Join(sep, Tail(parts))

RECURSIVE Digits(_)
Digits(n) == IF n < 10 THEN <<DigitChars[n + 1]>>
             ELSE Digits(n \div 10) \o <<DigitChars[(n % 10) + 1]>>

\* str(n) of an int
IntToText(n) == IF n < 0 THEN <<"-">> \o Digits(-n) ELSE Digits(n)

(***************************************************************************)
(* The call-syntax parser: re.findall(r'<function=(\w+)\{(.*?)\}>', text). *)
(***************************************************************************)
FunctionPrefix == <<"<","f","u","n","c","t","i","o","n","=">>

RECURSIVE WordRunEnd(_, _)
\* (\w+) is greedy and the next pattern character is not a word character:
\* the group is the whole run of word characters; this is the index after it
WordRunEnd(t, j) ==
    IF j <= Len(t) /\ t[j] \in WordChars THEN WordRunEnd(t, j + 1) ELSE j

RECURSIVE LazyClose(_, _)
\* (.*?)\}> is lazy and '.' does not match a newline: the index of the first
\* "}>" at or after j with no newline before it, 0 when there is none
LazyClose(t, j) ==
    IF j + 1 > Len(t) THEN 0
    ELSE IF t[j] = "}" /\ t[j + 1] = ">" THEN j
    ELSE IF t[j] = "\n" THEN 0
    ELSE LazyClose(t, j + 1)

RECURSIVE FirstCloser(_, _)
\* the index of the first ">" at or after j, 0 when there is none
FirstCloser(t, j) ==
    IF j > Len(t) THEN 0
    ELSE IF t[j] = ">" THEN j
    ELSE FirstCloser(t, j + 1)

\* one attempt at index i of a pattern that does not ask for the braces:
\* <function=(\w+)(.*?)>
MatchAtLoose(t, i) ==
    LET n == i + Len(FunctionPrefix)
        e == WordRunEnd(t, n)
        k == IF e > n THEN FirstCloser(t, e) ELSE 0
    IN  IF StartsWithAt(t, i, FunctionPrefix) /\ k > 0
        THEN [ok |-> TRUE, name |-> SubSeq(t, n, e - 1),
              args |-> SubSeq(t, e, k - 1), next |-> k + 1]
        ELSE [ok |-> FALSE]

\* one attempt of the pattern at index i
MatchAt(t, i) ==
    LET n == i + Len(FunctionPrefix)
        e == WordRunEnd(t, n)
        k == IF e > n /\ e <= Len(t) /\ t[e] = "{" THEN LazyClose(t, e + 1) ELSE 0
    IN  IF StartsWithAt(t, i, FunctionPrefix) /\ k > 0
        THEN [ok |-> TRUE, name |-> SubSeq(t, n, e - 1),
              args |-> SubSeq(t, e + 1, k - 1), next |-> k + 2]
        ELSE [ok |-> FALSE]

RECURSIVE FindAllFrom(_, _)
FindAllFrom(t, i) ==
    IF i > Len(t) THEN <<>>
    ELSE LET m == MatchAt(t, i)
         IN  IF m.ok THEN <<[name |-> m.name, args |-> m.args]>> \o FindAllFrom(t, m.next)
             ELSE FindAllFrom(t, i + 1)

\* function_matches: the (tool_name, tool_args_str) pairs, left to right
FindFunctionCalls(t) == FindAllFrom(t, 1)

\* "if not tool_args_str.strip().startswith('{'): tool_args_str = '{' + tool_args_str + '}'"
WrapArgs(s) ==
    IF StartsWithAt(Strip(s), 1, <<"{">>) THEN s ELSE <<"{">> \o s \o <<"}">>

(***************************************************************************)
(* json.loads on the subset of JSON the model's texts use: objects,        *)
(* arrays, strings without escapes, integers and true/false/null.          *)
(* A Python value is a tagged record; a dict keeps its insertion order.    *)
(* Indexes count from 1: index i is Python's character position i - 1.     *)
(***************************************************************************)
\* "Expecting value"
MsgExpectingValue ==
    <<"E","x","p","e","c","t","i","n","g"," ","v","a","l","u","e">>
\* "Expecting property name enclosed in double quotes"
MsgPropertyName ==
    <<"E","x","p","e","c","t","i","n","g"," ","p","r","o","p","e","r","t","y"," ","n","a","m",
      "e"," ","e","n","c","l","o","s","e","d"," ","i","n"," ","d","o","u","b","l","e"," ","q",
      "u","o","t","e","s">>
\* "Expecting ':' delimiter"
MsgColonDelimiter ==
    <<"E","x","p","e","c","t","i","n","g"," ","'",":","'"," ","d","e","l","i","m","i","t","e",
      "r">>
\* "Expecting ',' delimiter"
MsgCommaDelimiter ==
    <<"E","x","p","e","c","t","i","n","g"," ","'",",","'"," ","d","e","l","i","m","i","t","e",
      "r">>
\* "Extra data"
MsgExtraData ==
    <<"E","x","t","r","a"," ","d","a","t","a">>
\* "Unterminated string starting at"
MsgUnterminatedString ==
    <<"U","n","t","e","r","m","i","n","a","t","e","d"," ","s","t","r","i","n","g"," ","s","t",
      "a","r","t","i","n","g"," ","a","t">>
\* "Invalid control character at"
MsgControlCharacter ==
    <<"I","n","v","a","l","i","d"," ","c","o","n","t","r","o","l"," ","c","h","a","r","a","c",
      "t","e","r"," ","a","t">>

JsonWhitespace == {" ", "\t", "\n", "\r"}
ControlChars == {"\t", "\n", "\r", "\f"}

\* the Python values of the model
PyNone == [t |-> "none"]
PyStr(s) == [t |-> "str", s |-> s]
PyInt(n) == [t |-> "int", n |-> n]
PyBool(b) == [t |-> "bool", b |-> b]
PyList(items) == [t |-> "list", items |-> items]
\* a dict: its (key, value) entries in insertion order, keys are texts
PyDict(entries) == [t |-> "dict", entries |-> entries]

HasKey(entries, k) == \E i \in DOMAIN entries : entries[i].k = k
\* d[k]
GetItem(entries, k) == entries[CHOOSE i \in DOMAIN entries : entries[i].k = k].v
\* d[k] = v: a key already present keeps its place
SetItem(entries, k, v) ==
    IF HasKey(entries, k)
    THEN [i \in DOMAIN entries |->
            IF entries[i].k = k THEN [k |-> k, v |-> v] ELSE entries[i]]
    ELSE Append(entries, [k |-> k, v |-> v])

JsonOk(v, i) == [ok |-> TRUE, val |-> v, next |-> i]
JsonErr(m, i) == [ok |-> FALSE, msg |-> m, at |-> i]

\* s[i-1:i]: the character, or "" past the end
CharAt(s, i) == IF i >= 1 /\ i <= Len(s) THEN s[i] ELSE ""

RECURSIVE SkipWs(_, _)
\* WHITESPACE.match(s, i-1).end() + 1
SkipWs(s, i) ==
    IF i <= Len(s) /\ s[i] \in JsonWhitespace THEN SkipWs(s, i + 1) ELSE i

RECURSIVE StringEnd(_, _)
\* the first quote or control character at or after j, 0 when there is none
StringEnd(s, j) ==
    IF j > Len(s) THEN 0
    ELSE IF s[j] = "\"" \/ s[j] \in ControlChars THEN j
    ELSE StringEnd(s, j + 1)

\* scanstring(s, i-1): i is the index after the opening quote
ScanString(s, i) ==
    LET j == StringEnd(s, i)
    IN  IF j = 0 THEN JsonErr(MsgUnterminatedString, i - 1)
        ELSE IF s[j] # "\"" THEN JsonErr(MsgControlCharacter, j)
        ELSE JsonOk(SubSeq(s, i, j - 1), j + 1)

RECURSIVE DigitRunEnd(_, _)
DigitRunEnd(s, j) ==
    IF j <= Len(s) /\ s[j] \in Range(DigitChars) THEN DigitRunEnd(s, j + 1) ELSE j

DigitValue(ch) == (CHOOSE i \in DOMAIN DigitChars : DigitChars[i] = ch) - 1

RECURSIVE DigitsValue(_)
DigitsValue(d) ==
    IF d = <<>> THEN 0
    ELSE 10 * DigitsValue(SubSeq(d, 1, Len(d) - 1)) + DigitValue(d[Len(d)])

\* NUMBER_RE's integer part, -?(?:0|[1-9]\d*), at index i
ScanNumber(s, i) ==
    LET d == IF CharAt(s, i) = "-" THEN i + 1 ELSE i
        e == IF CharAt(s, d) = "0" THEN d + 1
             ELSE IF CharAt(s, d) \in Range(DigitChars) THEN DigitRunEnd(s, d)
             ELSE 0
    IN  IF e = 0 THEN JsonErr(MsgExpectingValue, i)
        ELSE JsonOk(PyInt((IF d > i THEN -1 ELSE 1) * DigitsValue(SubSeq(s, d, e - 1))), e)

RECURSIVE ScanOnce(_, _), ObjectLoop(_, _, _), ArrayLoop(_, _, _)

\* JSONObject((s, i-1)): i is the index after the opening brace
JSONObject(s, i) ==
    LET j == IF CharAt(s, i) # "\"" THEN SkipWs(s, i) ELSE i
    IN  IF CharAt(s, j) = "}" THEN JsonOk(PyDict(<<>>), j + 1)
        ELSE IF CharAt(s, j) # "\"" THEN JsonErr(MsgPropertyName, j)
        ELSE ObjectLoop(s, j + 1, <<>>)

\* one turn of JSONObject's while loop: i is the index after the key's opening quote
ObjectLoop(s, i, entries) ==
    LET key == ScanString(s, i)
    IN  IF ~key.ok THEN key
        ELSE
          LET c == IF CharAt(s, key.next) # ":" THEN SkipWs(s, key.next) ELSE key.next
          IN  IF CharAt(s, c) # ":" THEN JsonErr(MsgColonDelimiter, c)
              ELSE
                LET v == ScanOnce(s, SkipWs(s, c + 1))
                IN  IF ~v.ok THEN v
                    ELSE
                      LET n == SkipWs(s, v.next)
                          entries2 == SetItem(entries, key.val, v.val)
                      IN  IF CharAt(s, n) = "}" THEN JsonOk(PyDict(entries2), n + 1)
                          ELSE IF CharAt(s, n) # "," THEN JsonErr(MsgCommaDelimiter, n)
                          ELSE
                            LET q == SkipWs(s, n + 1)
                            IN  IF CharAt(s, q) # "\"" THEN JsonErr(MsgPropertyName, q)
                                ELSE ObjectLoop(s, q + 1, entries2)

\* JSONArray((s, i-1)): i is the index after the opening bracket
JSONArray(s, i) ==
    LET j == SkipWs(s, i)
    IN  IF CharAt(s, j) = "]" THEN JsonOk(PyList(<<>>), j + 1)
        ELSE ArrayLoop(s, j, <<>>)

ArrayLoop(s, i, items) ==
    LET v == ScanOnce(s, i)
    IN  IF ~v.ok THEN v
        ELSE
          LET n == SkipWs(s, v.next)
          IN  IF CharAt(s, n) = "]" THEN JsonOk(PyList(Append(items, v.val)), n + 1)
              ELSE IF CharAt(s, n) # "," THEN JsonErr(MsgCommaDelimiter, n)
              ELSE ArrayLoop(s, SkipWs(s, n + 1), Append(items, v.val))

\* scan_once(s, i-1); its StopIteration is the "Expecting value" every caller makes of it
ScanOnce(s, i) ==
    LET ch == CharAt(s, i)
    IN  IF ch = "\"" THEN
            LET r == ScanString(s, i + 1)
            IN  IF r.ok THEN JsonOk(PyStr(r.val), r.next) ELSE r
        ELSE IF ch = "{" THEN JSONObject(s, i + 1)
        ELSE IF ch = "[" THEN JSONArray(s, i + 1)
        ELSE IF StartsWithAt(s, i, <<"n","u","l","l">>) THEN JsonOk(PyNone, i + 4)
        ELSE IF StartsWithAt(s, i, <<"t","r","u","e">>) THEN JsonOk(PyBool(TRUE), i + 4)
        ELSE IF StartsWithAt(s, i, <<"f","a","l","s","e">>) THEN JsonOk(PyBool(FALSE), i + 5)
        ELSE ScanNumber(s, i)

\* JSONDecoder.decode
JsonLoads(s) ==
    LET r == ScanOnce(s, SkipWs(s, 1))
    IN  IF ~r.ok THEN r
        ELSE LET e == SkipWs(s, r.next)
             IN  IF e # Len(s) + 1 THEN JsonErr(MsgExtraData, e) ELSE r

\* str(JSONDecodeError): "<msg>: line L column C (char P)"
JsonErrorText(s, r) ==
    LET pos == r.at - 1
        newlines == {i \in 1..pos : s[i] = "\n"}
        lastnl == IF newlines = {} THEN 0 ELSE CHOOSE i \in newlines : \A j \in newlines : j <= i
    IN  r.msg \o <<":"," ","l","i","n","e"," ">> \o IntToText(Cardinality(newlines) + 1)
          \o <<" ","c","o","l","u","m","n"," ">> \o IntToText(pos - lastnl + 1)
          \o <<" ","(","c","h","a","r"," ">> \o IntToText(pos) \o <<")">>

(***************************************************************************)
(* str(), repr() and json.dumps(.., indent=2) of the Python values.        *)
(* An object of the model defines no __str__: str(o) is repr(o), the text  *)
(* the value carries; the __repr__ of an object that is not printable      *)
(* raises, and the text it carries is then the message of that exception.  *)
(***************************************************************************)
PyObject(hastext, text, printable, repr) ==
    [t |-> "object", hastext |-> hastext, text |-> text,
     printable |-> printable, repr |-> repr]

TextOk(s) == [ok |-> TRUE, s |-> s]
\* the conversion raised; msg is the str() of the exception
TextRaised(msg) == [ok |-> FALSE, msg |-> msg]

RECURSIVE EscapeChars(_, _)
\* the characters of s with each one in DOMAIN esc replaced by esc[ch] (by halves,
\* so that a long text is not walked one character deep at a time)
EscapeChars(s, esc) ==
    IF \A i \in 1..Len(s) : s[i] \notin DOMAIN esc THEN s
    ELSE IF Len(s) = 1 THEN esc[s[1]]
    ELSE EscapeChars(SubSeq(s, 1, Len(s) \div 2), esc)
           \o EscapeChars(SubSeq(s, Len(s) \div 2 + 1, Len(s)), esc)

ReprEscapes ==
    [ch \in {"\\", "\n", "\t", "\r", "\f"} |->
        CASE ch = "\\" -> <<"\\","\\">>
          [] ch = "\n" -> <<"\\","n">>
          [] ch = "\t" -> <<"\\","t">>
          [] ch = "\r" -> <<"\\","r">>
          [] ch = "\f" -> <<"\\","x","0","c">>]

\* repr() of a str: double quotes only when it holds ' and no "
ReprStr(s) ==
    IF "'" \in Range(s) /\ ~("\"" \in Range(s))
    THEN <<"\"">> \o EscapeChars(s, ReprEscapes) \o <<"\"">>
    ELSE <<"'">> \o EscapeChars(s, ReprEscapes @@ ("'" :> <<"\\","'">>)) \o <<"'">>

RECURSIVE ReprOf(_), ReprItems(_), ReprEntries(_)

\* repr(v): [ok, s], not ok when v holds an object that cannot be printed
ReprOf(v) ==
    CASE v.t = "none" -> TextOk(<<"N","o","n","e">>)
      [] v.t = "str" -> TextOk(ReprStr(v.s))
      [] v.t = "int" -> TextOk(IntToText(v.n))
      [] v.t = "bool" -> TextOk(IF v.b THEN <<"T","r","u","e">> ELSE <<"F","a","l","s","e">>)
      [] v.t = "list" ->
           LET r == ReprItems(v.items)
           IN  IF r.ok THEN TextOk(<<"[">> \o Join(<<",", " ">>, r.parts) \o <<"]">>)
               ELSE r
      [] v.t = "dict" ->
           LET r == ReprEntries(v.entries)
           IN  IF r.ok THEN TextOk(<<"{">> \o Join(<<",", " ">>, r.parts) \o <<"}">>)
               ELSE r
      [] v.t = "object" -> IF v.printable THEN TextOk(v.repr) ELSE TextRaised(v.repr)

ReprItems(items) ==
    IF items = <<>> THEN [ok |-> TRUE, parts |-> <<>>]
    ELSE LET h == ReprOf(Head(items))
             r == ReprItems(Tail(items))
         IN  IF ~h.ok THEN h
             ELSE IF ~r.ok THEN r
             ELSE [ok |-> TRUE, parts |-> <<h.s>> \o r.parts]

ReprEntries(entries) ==
    IF entries = <<>> THEN [ok |-> TRUE, parts |-> <<>>]
    ELSE LET h == ReprOf(Head(entries).v)
             r == ReprEntries(Tail(entries))
         IN  IF ~h.ok THEN h
             ELSE IF ~r.ok THEN r
             ELSE [ok |-> TRUE,
                   parts |-> <<ReprStr(Head(entries).k) \o <<":", " ">> \o h.s>> \o r.parts]

\* str(v)
StrOf(v) == IF v.t = "str" THEN TextOk(v.s) ELSE ReprOf(v)

JsonEscapes ==
    [ch \in {"\"", "\\", "\n", "\t", "\r", "\f"} |->
        CASE ch = "\"" -> <<"\\","\"">>
          [] ch = "\\" -> <<"\\","\\">>
          [] ch = "\n" -> <<"\\","n">>
          [] ch = "\t" -> <<"\\","t">>
          [] ch = "\r" -> <<"\\","r">>
          [] ch = "\f" -> <<"\\","f">>]

\* the JSON string literal of a text
JsonString(s) == <<"\"">> \o EscapeChars(s, JsonEscapes) \o <<"\"">>

\* "\n" followed by 2 * level spaces
NewlineIndent(level) == <<"\n">> \o [i \in 1..(2 * level) |-> " "]

RECURSIVE JsonDumpsAt(_, _), JsonDumpItems(_, _), JsonDumpEntries(_, _)

\* json.dumps(v, indent=2) of a value nested `level` deep: [ok, s], not ok for the
\* TypeError of a value that is not JSON serializable (its only caller drops the message)
NotSerializable == [ok |-> FALSE]

JsonDumpsAt(v, level) ==
    CASE v.t = "none" -> TextOk(<<"n","u","l","l">>)
      [] v.t = "str" -> TextOk(JsonString(v.s))
      [] v.t = "int" -> TextOk(IntToText(v.n))
      [] v.t = "bool" -> TextOk(IF v.b THEN <<"t","r","u","e">> ELSE <<"f","a","l","s","e">>)
      [] v.t = "list" ->
           IF v.items = <<>> THEN TextOk(<<"[","]">>)
           ELSE LET r == JsonDumpItems(v.items, level + 1)
                IN  IF r.ok
                    THEN TextOk(<<"[">> \o NewlineIndent(level + 1)
                                  \o Join(<<",">> \o NewlineIndent(level + 1), r.parts)
                                  \o NewlineIndent(level) \o <<"]">>)
                    ELSE NotSerializable
      [] v.t = "dict" ->
           IF v.entries = <<>> THEN TextOk(<<"{","}">>)
           ELSE LET r == JsonDumpEntries(v.entries, level + 1)
                IN  IF r.ok
                    THEN TextOk(<<"{">> \o NewlineIndent(level + 1)
                                  \o Join(<<",">> \o NewlineIndent(level + 1), r.parts)
                                  \o NewlineIndent(level) \o <<"}">>)
                    ELSE NotSerializable
      [] v.t = "object" -> NotSerializable

JsonDumpItems(items, level) ==
    IF items = <<>> THEN [ok |-> TRUE, parts |-> <<>>]
    ELSE LET h == JsonDumpsAt(Head(items), level)
             r == JsonDumpItems(Tail(items), level)
         IN  IF h.ok /\ r.ok THEN [ok |-> TRUE, parts |-> <<h.s>> \o r.parts]
             ELSE [ok |-> FALSE]

JsonDumpEntries(entries, level) ==
    IF entries = <<>> THEN [ok |-> TRUE, parts |-> <<>>]
    ELSE LET h == JsonDumpsAt(Head(entries).v, level)
             r == JsonDumpEntries(Tail(entries), level)
         IN  IF h.ok /\ r.ok
             THEN [ok |-> TRUE,
                   parts |-> <<JsonString(Head(entries).k) \o <<":", " ">> \o h.s>> \o r.parts]
             ELSE [ok |-> FALSE]

\* json.dumps(content, indent=2)
JsonDumps(v) == JsonDumpsAt(v, 0)

(***************************************************************************)
(* The result formatter, MCPClient._format_tool_result.                    *)
(***************************************************************************)
\* "[Unprintable item]"
UnprintableItem ==
    <<"[","U","n","p","r","i","n","t","a","b","l","e"," ","i","t","e","m","]">>
\* "[Unprintable content]"
UnprintableContent ==
    <<"[","U","n","p","r","i","n","t","a","b","l","e"," ","c","o","n","t","e","n","t","]">>

\* the outcome of a call: a returned Python value, or a raised exception with its str()
Returned(v) == [raised |-> FALSE, val |-> v]
Raised(msg) == [raised |-> TRUE, msg |-> msg]

\* the name of a value's type in the TypeError of str.join
TypeName(v) ==
    CASE v.t = "none" -> <<"N","o","n","e","T","y","p","e">>
      [] v.t = "int" -> <<"i","n","t">>
      [] v.t = "bool" -> <<"b","o","o","l">>
      [] v.t = "list" -> <<"l","i","s","t">>
      [] v.t = "dict" -> <<"d","i","c","t">>
      [] OTHER -> <<"o","b","j","e","c","t">>

\* one turn of "for item in content": what is appended to result
FormatItem(item) ==
    IF item.t = "object" /\ item.hastext THEN item.text
    ELSE IF item.t = "dict" /\ HasKey(item.entries, <<"t","e","x","t">>)
         THEN GetItem(item.entries, <<"t","e","x","t">>)
    ELSE LET s == StrOf(item)
         IN  IF s.ok THEN PyStr(s.s) ELSE PyStr(UnprintableItem)

\* "\n".join(result): a TypeError at the first item that is not a str
JoinLines(result) ==
    LET bad == {i \in DOMAIN result : result[i].t # "str"}
    IN  IF bad = {}
        THEN Returned(PyStr(Join(<<"\n">>, [i \in DOMAIN result |-> result[i].s])))
        ELSE LET i == CHOOSE i \in bad : \A j \in bad : i <= j
             IN  Raised(<<"s","e","q","u","e","n","c","e"," ","i","t","e","m"," ">>
                          \o IntToText(i - 1)
                          \o <<":"," ","e","x","p","e","c","t","e","d"," ","s","t","r"," ",
                               "i","n","s","t","a","n","c","e",","," ">>
                          \o TypeName(result[i]) \o <<" ","f","o","u","n","d">>)

\* str(content), "[Unprintable content]" when that raises
FormatFallback(content) ==
    LET s == StrOf(content)
    IN  Returned(PyStr(IF s.ok THEN s.s ELSE UnprintableContent))

\* the formatter, if it returned a text payload without the blanks around it
FormatStripsText(content) ==
    IF content.t = "none" THEN Returned(PyStr(<<>>))
    ELSE IF content.t = "str" THEN Returned(PyStr(Strip(content.s)))
    ELSE FormatFallback(content)

_format_tool_result(content) ==
    IF content.t = "none" THEN Returned(PyStr(<<>>))
    ELSE IF content.t = "str" THEN Returned(content)
    ELSE IF content.t = "list"
         THEN JoinLines([i \in DOMAIN content.items |-> FormatItem(content.items[i])])
    ELSE IF content.t = "dict"
         THEN IF HasKey(content.entries, <<"t","e","x","t">>)
              THEN Returned(GetItem(content.entries, <<"t","e","x","t">>))
              ELSE LET d == JsonDumps(content)
                   IN  IF d.ok THEN Returned(PyStr(d.s)) ELSE FormatFallback(content)
    ELSE FormatFallback(content)

(***************************************************************************)
(* The completion request: LanguageModelClient.create_system_message and   *)
(* the message list LanguageModelClient.generate_completion sends.         *)
(* A message is [role, content]; a tool descriptor is modelled by its name.*)
(***************************************************************************)
Message(role, content) == [role |-> role, content |-> content]

\* 'You are a helpful assistant for the Vespucci.ai platform. '
SystemIntro ==
    <<"Y","o","u"," ","a","r","e"," ","a"," ","h","e","l","p","f","u","l"," ","a","s","s","i",
      "s","t","a","n","t"," ","f","o","r"," ","t","h","e"," ","V","e","s","p","u","c","c","i",
      ".","a","i"," ","p","l","a","t","f","o","r","m","."," ">>
\* 'You have access to the following MCP tools: '
SystemToolsHead ==
    <<"Y","o","u"," ","h","a","v","e"," ","a","c","c","e","s","s"," ","t","o"," ","t","h","e",
      " ","f","o","l","l","o","w","i","n","g"," ","M","C","P"," ","t","o","o","l","s",":"," ">>
\* '. These tools can help you gather information and perform various tasks. To use tools, format your response like this: <function=tool_name{"param":"value"}>. For example, to search for information, u
SystemToolsBody ==
    <<"."," ","T","h","e","s","e"," ","t","o","o","l","s"," ","c","a","n"," ","h","e","l","p",
      " ","y","o","u"," ","g","a","t","h","e","r"," ","i","n","f","o","r","m","a","t","i","o",
      "n"," ","a","n","d"," ","p","e","r","f","o","r","m"," ","v","a","r","i","o","u","s"," ",
      "t","a","s","k","s","."," ","T","o"," ","u","s","e"," ","t","o","o","l","s",","," ","f",
      "o","r","m","a","t"," ","y","o","u","r"," ","r","e","s","p","o","n","s","e"," ","l","i",
      "k","e"," ","t","h","i","s",":"," ","<","f","u","n","c","t","i","o","n","=","t","o","o",
      "l","_","n","a","m","e","{","\"","p","a","r","a","m","\"",":","\"","v","a","l","u","e",
      "\"","}",">","."," ","F","o","r"," ","e","x","a","m","p","l","e",","," ","t","o"," ","s",
      "e","a","r","c","h"," ","f","o","r"," ","i","n","f","o","r","m","a","t","i","o","n",",",
      " ","u","s","e",":"," ","<","f","u","n","c","t","i","o","n","=","s","e","a","r","c","h",
      "{","\"","q","u","e","r","y","\"",":","\"","y","o","u","r"," ","s","e","a","r","c","h",
      " ","q","u","e","r","y","\"",",","\"","s","e","a","r","c","h","T","y","p","e","\"",":",
      "\"","w","e","b","\"","}",">","."," ","A","l","w","a","y","s"," ","i","n","c","l","u","d",
      "e"," ","e","x","p","l","a","n","a","t","o","r","y"," ","t","e","x","t"," ","a","l","o",
      "n","g"," ","w","i","t","h"," ","a","n","y"," ","f","u","n","c","t","i","o","n"," ","c",
      "a","l","l","s","."," ","I","M","P","O","R","T","A","N","T",":"," ","O","N","L","Y"," ",
      "u","s","e"," ","t","h","e"," ","s","p","e","c","i","f","i","c"," ","t","o","o","l"," ",
      "n","a","m","e","s"," ","l","i","s","t","e","d"," ","a","b","o","v","e",":"," ">>
\* ". Do not invent or try to use tools that aren't in this list."
SystemToolsTail ==
    <<"."," ","D","o"," ","n","o","t"," ","i","n","v","e","n","t"," ","o","r"," ","t","r","y",
      " ","t","o"," ","u","s","e"," ","t","o","o","l","s"," ","t","h","a","t"," ","a","r","e",
      "n","'","t"," ","i","n"," ","t","h","i","s"," ","l","i","s","t",".">>
\* ' For queries that require searching for information or performing specific tasks, please use the available tools to get real-time information. Always use <function=tool_name{...}> syntax when appropr
SystemReminder ==
    <<" ","F","o","r"," ","q","u","e","r","i","e","s"," ","t","h","a","t"," ","r","e","q","u",
      "i","r","e"," ","s","e","a","r","c","h","i","n","g"," ","f","o","r"," ","i","n","f","o",
      "r","m","a","t","i","o","n"," ","o","r"," ","p","e","r","f","o","r","m","i","n","g"," ",
      "s","p","e","c","i","f","i","c"," ","t","a","s","k","s",","," ","p","l","e","a","s","e",
      " ","u","s","e"," ","t","h","e"," ","a","v","a","i","l","a","b","l","e"," ","t","o","o",
      "l","s"," ","t","o"," ","g","e","t"," ","r","e","a","l","-","t","i","m","e"," ","i","n",
      "f","o","r","m","a","t","i","o","n","."," ","A","l","w","a","y","s"," ","u","s","e"," ",
      "<","f","u","n","c","t","i","o","n","=","t","o","o","l","_","n","a","m","e","{",".",".",
      ".","}",">"," ","s","y","n","t","a","x"," ","w","h","e","n"," ","a","p","p","r","o","p",
      "r","i","a","t","e",".">>
\* 'search'
TermSearch ==
    <<"s","e","a","r","c","h">>
\* 'find'
TermFind ==
    <<"f","i","n","d">>
\* 'lookup'
TermLookup ==
    <<"l","o","o","k","u","p">>
\* 'information'
TermInformation ==
    <<"i","n","f","o","r","m","a","t","i","o","n">>
\* 'data'
TermData ==
    <<"d","a","t","a">>
\* 'how to'
TermHowTo ==
    <<"h","o","w"," ","t","o">>
\* 'what is'
TermWhatIs ==
    <<"w","h","a","t"," ","i","s">>

\* the terms that make generate_completion add its reminder
EncourageTerms ==
    {TermSearch, TermFind, TermLookup, TermInformation, TermData, TermHowTo, TermWhatIs}

\* the grave accent (U+0060), a character no TLA+ string can hold: one element of a text
GraveAccent == "grave"

\* ", ".join of the tool names, each between two grave accents
AvailableToolsStr(tool_names) ==
    Join(<<",", " ">>,
         [i \in DOMAIN tool_names |-> <<GraveAccent>> \o tool_names[i] \o <<GraveAccent>>])

create_system_message(tool_names) ==
    Message("system",
            IF tool_names = <<>> THEN SystemIntro
            ELSE SystemIntro \o SystemToolsHead \o AvailableToolsStr(tool_names)
                   \o SystemToolsBody \o AvailableToolsStr(tool_names) \o SystemToolsTail)

HasRole(messages, role) == \E i \in DOMAIN messages : messages[i].role = role

\* the content of the last message of that role (the list has one)
LastOfRole(messages, role) ==
    LET i == CHOOSE i \in DOMAIN messages :
                 /\ messages[i].role = role
                 /\ \A j \in DOMAIN messages : messages[j].role = role => j <= i
    IN  messages[i].content

\* messages_copy with the system message in front when the list has none
WithSystemMessage(messages, tool_names) ==
    IF HasRole(messages, "system") THEN messages
    ELSE <<create_system_message(tool_names)>> \o messages

should_encourage_tools(messages_copy, tools) ==
    /\ Len(messages_copy) >= 3
    /\ tools # <<>>
    /\ HasRole(messages_copy, "user")
    /\ LET last_user_msg == Lower(LastOfRole(messages_copy, "user"))
       IN  /\ last_user_msg # <<>>
           /\ \E term \in EncourageTerms : Contains(last_user_msg, term)

\* the reminder goes to the first system message of messages_copy
AddReminder(messages_copy) ==
    LET i == CHOOSE i \in DOMAIN messages_copy :
                 /\ messages_copy[i].role = "system"
                 /\ \A j \in DOMAIN messages_copy : messages_copy[j].role = "system" => i <= j
    IN  [messages_copy EXCEPT ![i].content = @ \o SystemReminder]

\* params["messages"]: what the provider is sent for the list it is given
BuildRequest(messages, tools) ==
    LET messages_copy == WithSystemMessage(messages, tools)
    IN  IF should_encourage_tools(messages_copy, tools) THEN AddReminder(messages_copy)
        ELSE messages_copy

\* the caller's list as the request leaves it, when the request would write the
\* system message into the list it was given instead of into a copy
RequestWithoutCopy(messages, tools) == BuildRequest(messages, tools)

\* the caller's list as the request leaves it: "messages_copy = messages.copy()" is
\* a copy of the list, not of the messages in it.  The system message the request
\* inserts is a new message of the copy; a system message the caller's list holds
\* already is shared with the copy, and the reminder is added to that message
CallerListAfterRequest(messages, tools) ==
    IF HasRole(messages, "system") /\ should_encourage_tools(messages, tools)
    THEN AddReminder(messages)
    ELSE messages

(***************************************************************************)
(* The inputs of the model: queries, completions, tool results, failures.  *)
(***************************************************************************)
\* 'hi'
QueryHi ==
    <<"h","i">>
\* 'Find it'
QueryFind ==
    <<"F","i","n","d"," ","i","t">>
\* 'Here is the answer.'
TextPlain ==
    <<"H","e","r","e"," ","i","s"," ","t","h","e"," ","a","n","s","w","e","r",".">>
\* 'Let me check. <function=search{"query":"x"}>'
TextOneCall ==
    <<"L","e","t"," ","m","e"," ","c","h","e","c","k","."," ","<","f","u","n","c","t","i","o",
      "n","=","s","e","a","r","c","h","{","\"","q","u","e","r","y","\"",":","\"","x","\"","}",
      ">">>
\* '<function=search{"query":"x"}> <function=fetch{"id":7}>'
TextTwoCalls ==
    <<"<","f","u","n","c","t","i","o","n","=","s","e","a","r","c","h","{","\"","q","u","e","r",
      "y","\"",":","\"","x","\"","}",">"," ","<","f","u","n","c","t","i","o","n","=","f","e",
      "t","c","h","{","\"","i","d","\"",":","7","}",">">>
\* '<function=search{query}> <function=fetch{"id":7}>'
TextBadArgs ==
    <<"<","f","u","n","c","t","i","o","n","=","s","e","a","r","c","h","{","q","u","e","r","y",
      "}",">"," ","<","f","u","n","c","t","i","o","n","=","f","e","t","c","h","{","\"","i","d",
      "\"",":","7","}",">">>
\* 'search'
ToolSearch ==
    <<"s","e","a","r","c","h">>
\* 'fetch'
ToolFetch ==
    <<"f","e","t","c","h">>
\* 'Connection error.'
ProviderError ==
    <<"C","o","n","n","e","c","t","i","o","n"," ","e","r","r","o","r",".">>
\* 'Connection closed'
TransportError ==
    <<"C","o","n","n","e","c","t","i","o","n"," ","c","l","o","s","e","d">>
\* '[Errno 28] No space left on device'
LogError ==
    <<"[","E","r","r","n","o"," ","2","8","]"," ","N","o"," ","s","p","a","c","e"," ","l","e",
      "f","t"," ","o","n"," ","d","e","v","i","c","e">>
\* '42'
Text42 ==
    <<"4","2">>
\* 'text'
KeyText ==
    <<"t","e","x","t">>

\* the query texts
Queries == {<<>>, QueryHi, QueryFind}

\* response.choices[0].message.content: None or a text
Completions ==
    {PyNone, PyStr(TextPlain), PyStr(TextOneCall), PyStr(TextTwoCalls), PyStr(TextBadArgs)}

\* the tool names the server may declare at connection time
ToolSets == {<<>>, <<ToolSearch>>}

\* result.content of a tool call that returns: the fixture's {"text": "42"}, and a
\* list whose item carries a text that is no str (the formatter raises on it)
Payloads ==
    {PyDict(<<[k |-> KeyText, v |-> PyStr(Text42)]>>),
     PyList(<<PyObject(TRUE, PyInt(42), TRUE, <<>>)>>)}

\* the process_query calls of the model
Calls == {1, 2}

\* the invocations of the chat handler on_message, one per chat message
Handlers == {1, 2}

\* the source lines of the four "await self.log_conversation()"
LogSites == {173, 182, 210, 218}

\* how many characters of a log file reach the disk before its write fails
FlushedSizes == {0, 10, 40}

(***************************************************************************)
(* The state.                                                              *)
(***************************************************************************)
VARIABLES
    app,                \* the lifespan: its phase, and what it has done so far
    tools,              \* self.tools: the declared tool names, cached when connecting
    heap,               \* the message lists ever made, by identity: heap[id] is a list
    self_messages,      \* self.messages: the identity of the list it refers to
    pc,                 \* pc[c]: where call c of process_query stands
    query,              \* query[c]: the argument of call c
    user_message,       \* the local user_message of call c
    assistant_content,  \* the local assistant_content of call c
    function_matches,   \* the local function_matches of call c
    idx,                \* the position of call c's for loop in function_matches
    pending,            \* the tool call of call c that is in flight
    formatted_content,  \* the outcome of call c's latest _format_tool_result (line 201):
                        \* the value bound to the local content, or the exception raised
    llm_request,        \* the message list call c sent with its latest completion request
    rounds,             \* the completion requests call c has made
    ret,                \* the identity of the list call c returned, 0 before it returns
    trace,              \* what call c has done so far, in order
    files,              \* the conversations directory: file name (a second) -> content
    now,                \* the wall clock at its latest reading, in seconds
    processing_queries, \* the chat handler's set of message ids being processed
    handler,            \* handler[h]: where invocation h of on_message stands
    assistant_response, \* the local assistant_response of invocation h
    discord_out,        \* discord_out[h]: the calls of the chat API invocation h has
                        \* made that have ended, in order
    outbox              \* outbox[h]: the calls of the chat API invocation h makes at
                        \* its place in the code, in order: the first is awaited, the
                        \* others are those of the for loop that follow it

vars == <<app, tools, heap, self_messages, pc, query, user_message, assistant_content,
          function_matches, idx, pending, formatted_content, llm_request, rounds, ret,
          trace, files, now, processing_queries, handler, assistant_response,
          discord_out, outbox>>

botvars == <<processing_queries, handler, assistant_response, discord_out, outbox>>

callvars == <<query, user_message, assistant_content, function_matches, idx, pending,
              formatted_content, llm_request, rounds>>

\* the list self.messages refers to
Conversation == heap[self_messages]

\* one entry of trace: what happened, at which fragment or source line, and how long
\* self.messages was when it had happened (for a failure of the provider or of the log
\* writer: before its handler ran; for "done" and "raised": when the call ended;
\* for a fragment's outcome: with its message); for a step about a fragment also the tool
\* name and the value that went to the transport or came from it
EventOf(ev, i, len, name, arg) == [ev |-> ev, i |-> i, len |-> len, name |-> name, arg |-> arg]
Event(ev, i, len) == EventOf(ev, i, len, <<>>, PyNone)

Record(c, events) == trace' = [trace EXCEPT ![c] = @ \o events]

NoCall == [name |-> <<>>, args |-> PyNone]

\* a local that has not been assigned
Unbound == [unbound |-> TRUE]

\* MCPClient.__init__ has run; lifespan has not connected yet
Init ==
    /\ app = [phase |-> "init", connected |-> FALSE, published |-> FALSE,
              bot_started |-> FALSE, cleaned_up |-> FALSE]
    /\ tools = <<>>
    /\ heap = << <<>> >>
    /\ self_messages = 1
    /\ pc = [c \in Calls |-> "idle"]
    /\ query = [c \in Calls |-> <<>>]
    /\ user_message = [c \in Calls |-> Message("user", <<>>)]
    /\ assistant_content = [c \in Calls |-> <<>>]
    /\ function_matches = [c \in Calls |-> <<>>]
    /\ idx = [c \in Calls |-> 0]
    /\ pending = [c \in Calls |-> NoCall]
    /\ formatted_content = [c \in Calls |-> Unbound]
    /\ llm_request = [c \in Calls |-> <<>>]
    /\ rounds = [c \in Calls |-> 0]
    /\ ret = [c \in Calls |-> 0]
    /\ trace = [c \in Calls |-> <<>>]
    /\ files = <<>>
    /\ now = 0
    /\ processing_queries = {}
    /\ handler = [h \in Handlers |-> "idle"]
    /\ assistant_response = [h \in Handlers |-> <<>>]
    /\ discord_out = [h \in Handlers |-> <<>>]
    /\ outbox = [h \in Handlers |-> <<>>]

(***************************************************************************)
(* Start-up: lifespan connects the client and publishes it.                *)
(***************************************************************************)
\* lifespan after connect_to_server returned True (lines 44-77 of main.py): the client
\* is stored in app.state for the routes, and the application serves.  With a token
\* set the chat bot is made with the client and started; when that raises (lines
\* 57-72, "Continuing startup without Discord bot") the application serves without it
LifespanServing(discord_token, bot_raises) ==
    [phase |-> "serving", connected |-> TRUE, published |-> TRUE,
     bot_started |-> (discord_token /\ ~bot_raises), cleaned_up |-> FALSE]

\* lifespan, if it went on after connect_to_server returned False
LifespanIgnoresFailure ==
    [phase |-> "serving", connected |-> FALSE, published |-> TRUE,
     bot_started |-> TRUE, cleaned_up |-> FALSE]

\* lifespan after connect_to_server returned False (lines 39-48, 79-82 of main.py): it
\* raises, and the exception is on its way through the finally block
LifespanAborting == [app EXCEPT !.phase = "aborting"]

\* connect_to_server returns True: the declared tools are cached, and lifespan
\* publishes the client
ConnectToServer(declared, discord_token, bot_raises) ==
    /\ app.phase = "init"
    /\ app' = LifespanServing(discord_token, bot_raises)
    /\ tools' = declared
    /\ UNCHANGED <<heap, self_messages, pc, callvars, ret, trace, files, now>>
    /\ UNCHANGED botvars

\* connect_to_server returns False, having cached no tool: lifespan raises and nothing
\* is published
ConnectFails ==
    /\ app.phase = "init"
    /\ app' = LifespanAborting
    /\ UNCHANGED <<tools, heap, self_messages, pc, callvars, ret, trace, files, now>>
    /\ UNCHANGED botvars

\* the finally block of lifespan up to "await client.cleanup()" (lines 83-87), on
\* every way out: with the exception of a failed start, where no bot was made and
\* lifespan is over, and at the shutdown of the serving application (after the yield
\* of line 77).  cleanup() raises again what closing the connection raised (lines
\* 245-248); lifespan then ends at once, without closing the bot.  When it returns
\* and a bot was made, "await discord_bot.close()" is next
Cleanup(raises) ==
    /\ app.phase \in {"aborting", "serving"}
    /\ app' = [app EXCEPT !.cleaned_up = TRUE,
                          !.phase = IF app.phase = "aborting" THEN "failed"
                                    ELSE IF app.bot_started /\ ~raises THEN "closing"
                                    ELSE "ended"]
    /\ UNCHANGED <<tools, heap, self_messages, pc, callvars, ret, trace, files, now>>
    /\ UNCHANGED botvars

\* lines 89-99 of lifespan: the client's cleanup has returned, the bot is closed and
\* its task cancelled.  DiscordBot.close raises again what closing raised (bot.py
\* 103-108); lifespan then ends at once with that exception, lines 93-99 do not run
\* and the task of the bot goes on
CloseBot(raises) ==
    /\ app.phase = "closing"
    /\ app' = [app EXCEPT !.phase = "ended", !.bot_started = raises]
    /\ UNCHANGED <<tools, heap, self_messages, pc, callvars, ret, trace, files, now>>
    /\ UNCHANGED botvars

\* a query can reach the client: through the routes of the serving application
\* (app.state.client) or through the chat bot, which runs until it is closed
ClientReachable == (app.phase = "serving" /\ app.published) \/ app.bot_started

(***************************************************************************)
(* process_query.                                                          *)
(***************************************************************************)
\* "Tool '"
ToolReturnedHead ==
    <<"T","o","o","l"," ","'">>
\* "' returned: "
ToolReturnedMid ==
    <<"'"," ","r","e","t","u","r","n","e","d",":"," ">>
\* "Error using tool '"
ToolErrorHead ==
    <<"E","r","r","o","r"," ","u","s","i","n","g"," ","t","o","o","l"," ","'">>
\* "': "
ToolErrorMid ==
    <<"'",":"," ">>
\* "I'm sorry, I encountered an error: "
SorryPrefix ==
    <<"I","'","m"," ","s","o","r","r","y",","," ","I"," ","e","n","c","o","u","n","t","e","r",
      "e","d"," ","a","n"," ","e","r","r","o","r",":"," ">>

\* f"I'm sorry, I encountered an error: {str(e)}"
SorryMessage(e) == Message("assistant", SorryPrefix \o e)

\* the tool result, if it were appended as a tool-role message that refers to its call
ToolResultAsToolMessage(tool_name, content) ==
    [role |-> "tool", tool_call_id |-> tool_name,
     content |-> ToolReturnedHead \o tool_name \o ToolReturnedMid \o content]

\* f"Tool '{tool_name}' returned: {content}"
ToolResultMessage(tool_name, content) ==
    Message("user", ToolReturnedHead \o tool_name \o ToolReturnedMid \o content)

\* f"Error using tool '{tool_name}': {str(e)}"
ToolErrorMessage(tool_name, e) ==
    Message("user", ToolErrorHead \o tool_name \o ToolErrorMid \o e)

\* self.messages.append(m)
AppendMessage(m) == heap' = [heap EXCEPT ![self_messages] = Append(@, m)]

\* the handler of "except Exception as e" around the whole body, with no handler at
\* all: the exception reaches the caller
OuterExceptReraises(c, e) ==
    /\ pc' = [pc EXCEPT ![c] = "raised"]
    /\ UNCHANGED <<heap, self_messages, ret>>

\* the outer handler, if it always made the list anew from the seed and the error
\* answer (line 234) and so dropped what the rounds before had accumulated
OuterExceptReplaces(c, e) ==
    /\ heap' = Append(heap, <<user_message[c], SorryMessage(e)>>)
    /\ self_messages' = Len(heap) + 1
    /\ ret' = [ret EXCEPT ![c] = self_messages']
    /\ pc' = [pc EXCEPT ![c] = "done"]

\* the outer handler, if it returned the list as the failure left it, without the
\* error answer
OuterExceptSilent(c, e) ==
    /\ UNCHANGED <<heap, self_messages>>
    /\ ret' = [ret EXCEPT ![c] = self_messages]
    /\ pc' = [pc EXCEPT ![c] = "done"]

\* the handler of "except Exception as e" around the whole body: the error answer is
\* appended (or the list is made anew when it holds no user message) and returned
OuterExcept(c, e) ==
    /\ IF Conversation = <<>> \/ ~HasRole(Conversation, "user")
       THEN /\ heap' = Append(heap, <<user_message[c], SorryMessage(e)>>)
            /\ self_messages' = Len(heap) + 1
       ELSE /\ AppendMessage(SorryMessage(e))
            /\ UNCHANGED self_messages
    /\ ret' = [ret EXCEPT ![c] = self_messages']
    /\ pc' = [pc EXCEPT ![c] = "done"]

\* the inner "except Exception as e" of the for loop: the error message of the
\* current fragment is appended, and its log write is next
InnerExcept(c, e) ==
    /\ AppendMessage(ToolErrorMessage(function_matches[c][idx[c]].name, e))
    /\ pc' = [pc EXCEPT ![c] = "log218"]
    /\ UNCHANGED <<self_messages, ret>>

\* the seeding, if it appended the user message to the list the client holds instead
\* of binding self.messages to a new list
StartQueryKeepsList(c, q) ==
    /\ ClientReachable
    /\ pc[c] = "idle"
    /\ query' = [query EXCEPT ![c] = q]
    /\ user_message' = [user_message EXCEPT ![c] = Message("user", q)]
    /\ heap' = [heap EXCEPT ![self_messages] = Append(@, Message("user", q))]
    /\ self_messages' = self_messages
    /\ pc' = [pc EXCEPT ![c] = "llm"]
    /\ Record(c, <<Event("seed", 0, Len(heap'[self_messages']))>>)
    /\ UNCHANGED <<app, tools, assistant_content, function_matches, idx, pending,
                   llm_request, rounds, ret, files, now, formatted_content>>
    /\ UNCHANGED botvars

\* lines 144-149: the conversation is seeded with the user message. A query reaches
\* the client through the routes (app.state.client) or through the chat bot
StartQuery(c, q) ==
    /\ ClientReachable
    /\ pc[c] = "idle"
    /\ query' = [query EXCEPT ![c] = q]
    /\ user_message' = [user_message EXCEPT ![c] = Message("user", q)]
    /\ heap' = Append(heap, <<Message("user", q)>>)
    /\ self_messages' = Len(heap) + 1
    /\ pc' = [pc EXCEPT ![c] = "llm"]
    /\ Record(c, <<Event("seed", 0, 1)>>)
    /\ UNCHANGED <<app, tools, assistant_content, function_matches, idx, pending,
                   llm_request, rounds, ret, files, now, formatted_content>>
    /\ UNCHANGED botvars

\* lines 154-157 with generate_completion up to the API call: the request is sent
RequestCompletion(c) ==
    /\ pc[c] = "llm"
    /\ rounds[c] < MaxRounds
    /\ llm_request' = [llm_request EXCEPT ![c] = BuildRequest(Conversation, tools)]
    /\ heap' = [heap EXCEPT ![self_messages] = CallerListAfterRequest(@, tools)]
    /\ rounds' = [rounds EXCEPT ![c] = @ + 1]
    /\ pc' = [pc EXCEPT ![c] = "await_llm"]
    /\ Record(c, <<Event("request", 0, Len(heap'[self_messages]))>>)
    /\ UNCHANGED <<app, tools, self_messages, query, user_message, assistant_content,
                   function_matches, idx, pending, ret, files, now, formatted_content>>
    /\ UNCHANGED botvars

\* lines 160-181: the provider answers; the text is scanned and the assistant
\* message appended
CompletionReturns(c, content) ==
    /\ pc[c] = "await_llm"
    /\ LET text == IF content.t = "none" THEN <<>> ELSE content.s
           matches == FindFunctionCalls(text)
       IN  /\ assistant_content' = [assistant_content EXCEPT ![c] = text]
           /\ function_matches' = [function_matches EXCEPT ![c] = matches]
           /\ idx' = [idx EXCEPT ![c] = IF matches = <<>> THEN 0 ELSE 1]
           /\ AppendMessage(Message("assistant", text))
           /\ pc' = [pc EXCEPT ![c] = IF matches = <<>> THEN "log173" ELSE "log182"]
           /\ Record(c, <<EventOf("completion", Len(matches), Len(Conversation) + 1,
                                  <<>>, PyStr(text))>>)
    /\ UNCHANGED <<app, tools, self_messages, query, user_message, pending, llm_request,
                   rounds, ret, files, now, formatted_content>>
    /\ UNCHANGED botvars

\* generate_completion raises (lines 151-154 of language_model.py re-raise): the
\* outer handler of process_query answers
CompletionFails(c, e) ==
    /\ pc[c] = "await_llm"
    /\ OuterExcept(c, e)
    /\ Record(c, <<Event("provider_error", 0, Len(Conversation)),
                   Event(pc'[c], 0, Len(heap'[self_messages']))>>)
    /\ UNCHANGED <<app, tools, callvars, files, now>>
    /\ UNCHANGED botvars

\* the source line of the log write call c stands at, 0 elsewhere
LogSite(c) ==
    CASE pc[c] = "log173" -> 173
      [] pc[c] = "log182" -> 182
      [] pc[c] = "log210" -> 210
      [] pc[c] = "log218" -> 218
      [] OTHER -> 0

\* serializable_conversation of log_conversation: role and content of each message
Serializable(messages) ==
    [i \in DOMAIN messages |-> [role |-> messages[i].role, content |-> messages[i].content]]

\* a file of the conversations directory after "json.dump(serializable_conversation, f)"
\* was written and the file closed: it holds the whole JSON text of the snapshot
FileHolding(serializable_conversation) ==
    [complete |-> TRUE, content |-> serializable_conversation, flushed |-> <<>>]

\* the role of a message as a text
RoleText(role) ==
    CASE role = "user" -> <<"u","s","e","r">>
      [] role = "assistant" -> <<"a","s","s","i","s","t","a","n","t">>
      [] role = "system" -> <<"s","y","s","t","e","m">>
      [] role = "tool" -> <<"t","o","o","l">>

\* the text json.dump(serializable_conversation, f, indent=2) writes
LogText(serializable_conversation) ==
    JsonDumps(PyList([i \in DOMAIN serializable_conversation |->
        PyDict(<<[k |-> <<"r","o","l","e">>,
                  v |-> PyStr(RoleText(serializable_conversation[i].role))],
                 [k |-> <<"c","o","n","t","e","n","t">>,
                  v |-> PyStr(serializable_conversation[i].content)]>>)])).s

\* a file after open(filepath, "w") and a write that failed: created or cut to no
\* bytes, and holding the characters that had reached it before the failure, the
\* beginning of the JSON text and never all of it
PartialFile(text, n) == [complete |-> FALSE, content |-> <<>>, flushed |-> SubSeq(text, 1, n)]

\* a file after open(filepath, "w") alone, or after a failure with nothing flushed
EmptyFile == PartialFile(<<>>, 0)

\* the directory after the file named by second t was given that content
WriteFile(dir, t, file) ==
    IF t \in DOMAIN dir THEN [dir EXCEPT ![t] = file] ELSE dir @@ (t :> file)

\* datetime.now() moves on by a second. The log files are only ever written, never
\* read: no step of process_query depends on the clock or on a file.
Tick ==
    /\ now < MaxClock
    /\ now' = now + 1
    /\ UNCHANGED <<app, tools, heap, self_messages, pc, callvars, ret, trace, files>>
    /\ UNCHANGED botvars

\* log_conversation returns: the file named by the current second holds the snapshot.
\* After line 173 the loop breaks and the list is returned; after line 182 the for
\* loop starts; after lines 210 and 218 it goes on, or the while loop does
LogConversation(c) ==
    /\ LogSite(c) # 0
    /\ files' = WriteFile(files, now, FileHolding(Serializable(Conversation)))
    /\ UNCHANGED now
    /\ IF pc[c] = "log173"
       THEN /\ pc' = [pc EXCEPT ![c] = "done"]
            /\ ret' = [ret EXCEPT ![c] = self_messages]
            /\ UNCHANGED idx
            /\ Record(c, <<EventOf("log_ok", 173, Len(Conversation), <<>>, PyInt(now)),
                           Event("done", 0, Len(Conversation))>>)
       ELSE /\ UNCHANGED ret
            /\ Record(c, <<EventOf("log_ok", LogSite(c), Len(Conversation), <<>>,
                                   PyInt(now))>>)
            /\ IF pc[c] = "log182"
               THEN /\ pc' = [pc EXCEPT ![c] = "dispatch"]
                    /\ UNCHANGED idx
               ELSE IF idx[c] < Len(function_matches[c])
               THEN /\ pc' = [pc EXCEPT ![c] = "dispatch"]
                    /\ idx' = [idx EXCEPT ![c] = @ + 1]
               ELSE /\ pc' = [pc EXCEPT ![c] = "llm"]
                    /\ UNCHANGED idx
    /\ UNCHANGED <<app, tools, heap, self_messages, query, user_message,
                   assistant_content, function_matches, pending, llm_request, rounds,
                   formatted_content>>
    /\ UNCHANGED botvars

\* log_conversation raises (lines 334-337 re-raise): at line 210 the for loop's own
\* handler takes it for a tool failure, elsewhere the outer handler answers.  The
\* failure comes before the file is opened (os.makedirs, the serialising loop, open
\* itself: the directory is as it was) or after open(filepath, "w") (json.dump or the
\* closing of the file, as with a full disk or a file size limit: whatever the file
\* of this second held before, it now holds the first `flushed` characters of the
\* JSON text, those written through the buffer before the failure: none, or some,
\* never all)
LogConversationFails(c, e, opened, flushed) ==
    /\ LogSite(c) # 0
    /\ flushed \in Nat
    /\ ~opened => flushed = 0
    /\ LET text == IF flushed > 0 THEN LogText(Serializable(Conversation)) ELSE <<>>
       IN  /\ flushed = 0 \/ flushed < Len(text)
           /\ files' = IF opened THEN WriteFile(files, now, PartialFile(text, flushed))
                       ELSE files
    /\ IF pc[c] = "log210" THEN InnerExcept(c, e) ELSE OuterExcept(c, e)
    /\ Record(c, IF pc[c] = "log210"
                 THEN <<Event("log_error", 210, Len(Conversation))>>
                 ELSE <<Event("log_error", LogSite(c), Len(Conversation)),
                        Event(pc'[c], 0, Len(heap'[self_messages']))>>)
    /\ UNCHANGED <<app, tools, callvars, now>>
    /\ UNCHANGED botvars

\* the dispatch, if it looked the name up in the declared tools and refused a name
\* that is not among them, without a transport call
DispatchToolChecked(c) ==
    /\ pc[c] = "dispatch"
    /\ LET fragment == function_matches[c][idx[c]]
           tool_args_str == WrapArgs(fragment.args)
           decoded == JsonLoads(tool_args_str)
       IN  IF decoded.ok /\ fragment.name \in Range(tools)
           THEN /\ pending' = [pending EXCEPT ![c] =
                                  [name |-> fragment.name, args |-> decoded.val]]
                /\ pc' = [pc EXCEPT ![c] = "await_tool"]
                /\ Record(c, <<EventOf("dispatch", idx[c], Len(Conversation),
                                       fragment.name, decoded.val)>>)
                /\ UNCHANGED <<heap, self_messages, ret>>
           ELSE /\ InnerExcept(c, IF decoded.ok THEN fragment.name
                                ELSE JsonErrorText(tool_args_str, decoded))
                /\ Record(c, <<EventOf("decode_error", idx[c], Len(Conversation) + 1,
                                       fragment.name, PyStr(tool_args_str))>>)
                /\ UNCHANGED pending
    /\ UNCHANGED <<app, tools, query, user_message, assistant_content, function_matches,
                   idx, llm_request, rounds, files, now, formatted_content>>
    /\ UNCHANGED botvars

\* lines 185-198 up to the transport call: the arguments of the current fragment
\* are wrapped and decoded, and the call sent; a decode error goes to the handler
DispatchTool(c) ==
    /\ pc[c] = "dispatch"
    /\ LET fragment == function_matches[c][idx[c]]
           tool_args_str == WrapArgs(fragment.args)
           decoded == JsonLoads(tool_args_str)
       IN  IF decoded.ok
           THEN /\ pending' = [pending EXCEPT ![c] =
                                  [name |-> fragment.name, args |-> decoded.val]]
                /\ pc' = [pc EXCEPT ![c] = "await_tool"]
                /\ Record(c, <<EventOf("dispatch", idx[c], Len(Conversation),
                                       fragment.name, decoded.val)>>)
                /\ UNCHANGED <<heap, self_messages, ret>>
           ELSE /\ InnerExcept(c, JsonErrorText(tool_args_str, decoded))
                /\ Record(c, <<EventOf("decode_error", idx[c], Len(Conversation) + 1,
                                       fragment.name, PyStr(tool_args_str))>>)
                /\ UNCHANGED pending
    /\ UNCHANGED <<app, tools, query, user_message, assistant_content, function_matches,
                   idx, llm_request, rounds, files, now, formatted_content>>
    /\ UNCHANGED botvars

\* lines 198-209: the transport returns; the result is formatted and appended. An
\* exception of the formatter or of the f-string goes to the handler
ToolReturns(c, content) ==
    /\ pc[c] = "await_tool"
    /\ LET formatted == _format_tool_result(content)
           shown == IF formatted.raised THEN TextRaised(formatted.msg)
                    ELSE StrOf(formatted.val)
       IN  IF shown.ok
           THEN /\ AppendMessage(ToolResultMessage(pending[c].name, shown.s))
                /\ pc' = [pc EXCEPT ![c] = "log210"]
                /\ Record(c, <<EventOf("tool_ok", idx[c], Len(Conversation) + 1,
                                       pending[c].name, content)>>)
                /\ UNCHANGED <<self_messages, ret>>
           ELSE /\ InnerExcept(c, shown.msg)
                /\ Record(c, <<EventOf("format_error", idx[c], Len(Conversation) + 1,
                                       pending[c].name, content)>>)
    /\ formatted_content' = [formatted_content EXCEPT ![c] = _format_tool_result(content)]
    /\ pending' = [pending EXCEPT ![c] = NoCall]
    /\ UNCHANGED <<app, tools, query, user_message, assistant_content, function_matches,
                   idx, llm_request, rounds, files, now>>
    /\ UNCHANGED botvars

\* line 198 raises: the transport call failed
ToolFails(c, e) ==
    /\ pc[c] = "await_tool"
    /\ InnerExcept(c, e)
    /\ Record(c, <<EventOf("tool_error", idx[c], Len(Conversation) + 1,
                           pending[c].name, PyStr(e))>>)
    /\ pending' = [pending EXCEPT ![c] = NoCall]
    /\ UNCHANGED <<app, tools, query, user_message, assistant_content, function_matches,
                   idx, llm_request, rounds, files, now, formatted_content>>
    /\ UNCHANGED botvars

(***************************************************************************)
(* One process_query call on a connected client, with every behaviour of   *)
(* the provider, the transport and the log writer, all within one second   *)
(* of the wall clock.  The way out of lifespan (Cleanup, CloseBot) is in   *)
(* SpecStartup: no step of process_query reads what it changes.  A failed   *)
(* log write leaves nothing flushed here; the files a failure leaves with   *)
(* the beginning of the text are in SpecLog, SpecStartup, SpecSequential    *)
(* and SpecParser: no step of process_query reads the log files.            *)
(***************************************************************************)
Next ==
    \/ \E declared \in ToolSets : ConnectToServer(declared, TRUE, FALSE)
    \/ ConnectFails
    \/ \E q \in Queries : StartQuery(1, q)
    \/ RequestCompletion(1)
    \/ \E content \in Completions : CompletionReturns(1, content)
    \/ CompletionFails(1, ProviderError)
    \/ LogConversation(1)
    \/ \E opened \in BOOLEAN : LogConversationFails(1, LogError, opened, 0)
    \/ DispatchTool(1)
    \/ \E content \in Payloads : ToolReturns(1, content)
    \/ ToolFails(1, TransportError)

Spec == Init /\ [][Next]_vars

(***************************************************************************)
(* Reading the history of a call.                                          *)
(***************************************************************************)
\* the list call c returned
ReturnedConversation(c) == heap[ret[c]]

LastEvent(c) == trace[c][Len(trace[c])]

\* the positions of trace[c] where ev happened
PositionsOf(c, ev) == {p \in DOMAIN trace[c] : trace[c][p].ev = ev}

\* the round (the number of the completion request) position p of trace[c] lies in
RoundAt(c, p) == Cardinality({r \in 1..p : trace[c][r].ev = "request"})

\* a fragment's turn of the for loop begins with one of these, and ends with one of those
FragmentBegins == {"dispatch", "decode_error"}
FragmentOutcomes == {"tool_ok", "tool_error", "decode_error", "format_error"}

\* every log write of call c so far has succeeded
LogWritesSucceeded(c) == PositionsOf(c, "log_error") = {}

\* old is new, or new is old with one message more at its end
AppendedAtMostOne(old, new) ==
    \/ new = old
    \/ Len(new) = Len(old) + 1 /\ SubSeq(new, 1, Len(old)) = old

(***************************************************************************)
(* C1                                                                      *)
(***************************************************************************)
\* C1: whatever the provider, the transport and the log writer do, no exception
\* of process_query reaches the caller, and a call that has ended has returned a
\* conversation whose first message is the seed user message of its query.
C1_NoExceptionEscapes ==
    \A c \in Calls :
        /\ pc[c] # "raised"
        /\ pc[c] = "done" =>
             /\ ret[c] \in DOMAIN heap
             /\ ReturnedConversation(c) # <<>>
             /\ ReturnedConversation(c)[1] = Message("user", query[c])

\* a call that met a failed log write, a failed tool call and a failed completion
\* request, and has returned
C1_Witness ==
    \E c \in Calls :
        /\ pc[c] = "done"
        /\ PositionsOf(c, "log_error") # {}
        /\ PositionsOf(c, "tool_error") # {}
        /\ PositionsOf(c, "provider_error") # {}

(***************************************************************************)
(* C2                                                                      *)
(***************************************************************************)
\* C2: process_query returns in exactly two situations: the latest completion had no
\* call fragment and the returned conversation ends with its assistant message, or the
\* completion request failed and the returned conversation ends with the synthetic
\* error answer; nothing else makes it return.
C2_ReturnsOnlyOnFinalAnswerOrProviderFailure ==
    \A c \in Calls :
        pc[c] = "done" =>
            LET cause == trace[c][Len(trace[c]) - 1]
                conv == ReturnedConversation(c)
            IN  \/ /\ cause.ev = "log_ok" /\ cause.i = 173
                   /\ function_matches[c] = <<>>
                   /\ conv[Len(conv)] = Message("assistant", assistant_content[c])
                \/ /\ cause.ev = "provider_error"
                   /\ conv[Len(conv)] = SorryMessage(ProviderError)

\* the same, for the calls all of whose log writes succeeded
C2_WhenLogWritesSucceed ==
    \A c \in Calls :
        pc[c] = "done" /\ LogWritesSucceeded(c) =>
            LET cause == trace[c][Len(trace[c]) - 1]
                conv == ReturnedConversation(c)
            IN  \/ /\ cause.ev = "log_ok" /\ cause.i = 173
                   /\ function_matches[c] = <<>>
                   /\ conv[Len(conv)] = Message("assistant", assistant_content[c])
                \/ /\ cause.ev = "provider_error"
                   /\ conv[Len(conv)] = SorryMessage(ProviderError)

(***************************************************************************)
(* C3                                                                      *)
(***************************************************************************)
\* what C3 says of call c
C3_Holds(c) ==
    \* the failed transport call left exactly one message, an error notice with the name
    /\ \A p \in PositionsOf(c, "tool_error") :
          /\ trace[c][p].len = trace[c][p - 1].len + 1
          /\ p = Len(trace[c]) =>
               Conversation[Len(Conversation)] =
                   ToolErrorMessage(function_matches[c][idx[c]].name, TransportError)
    \* nothing was raised to the caller
    /\ pc[c] # "raised"
    \* another completion is requested afterwards: the call does not end without it
    /\ pc[c] = "done" =>
          \A p \in PositionsOf(c, "tool_error") :
              \E q \in PositionsOf(c, "request") : q > p
    \* and that request carries the whole conversation, the error message included
    /\ (trace[c] # <<>> /\ LastEvent(c).ev = "request") =>
          \A i \in DOMAIN Conversation :
              \E j \in DOMAIN llm_request[c] : llm_request[c][j] = Conversation[i]

\* C3: when the transport call of a fragment named NAME fails, process_query appends
\* exactly one message, an error notice naming NAME, raises nothing, and afterwards
\* requests another completion whose input includes that message.
C3_ToolFailureIsFedBack == \A c \in Calls : C3_Holds(c)

\* the same, for the calls all of whose log writes succeeded
C3_WhenLogWritesSucceed == \A c \in Calls : LogWritesSucceeded(c) => C3_Holds(c)

(***************************************************************************)
(* C4                                                                      *)
(***************************************************************************)
\* the conversation part of the request call c sent last
SentConversation(c) ==
    SelectSeq(llm_request[c], LAMBDA m : m.role # "system")

\* C4: when the provider fails in some round, the call ends at once (no further
\* request, no further dispatch) and returns the messages accumulated before that
\* round followed by exactly one synthetic assistant error message; when the first
\* request fails these are 2 messages, the seed and the error answer.
C4_ProviderFailureEndsQuery ==
    \A c \in Calls :
        \A p \in PositionsOf(c, "provider_error") :
            /\ p + 1 = Len(trace[c])
            /\ trace[c][p + 1].ev = "done"
            /\ pc[c] = "done"
            /\ ReturnedConversation(c) = SentConversation(c) \o <<SorryMessage(ProviderError)>>
            /\ Len(ReturnedConversation(c)) = trace[c][p].len + 1
            /\ rounds[c] = 1 =>
                 ReturnedConversation(c) =
                     <<Message("user", query[c]), SorryMessage(ProviderError)>>

\* the provider failed in the second round, after the tool messages of the first
C4_Witness ==
    \E c \in Calls :
        /\ pc[c] = "done"
        /\ rounds[c] = 2
        /\ PositionsOf(c, "provider_error") # {}
        /\ Len(ReturnedConversation(c)) >= 4

(***************************************************************************)
(* C5                                                                      *)
(***************************************************************************)
\* C5: a failed log write does not unwind the loop and does not fail the query: the
\* call goes on as if the write had succeeded, so no message is appended because of it
\* and the call does not end because of it (after line 173 it ends as it would have).
C5_LogFailureChangesNothing ==
    \A c \in Calls :
        \A p \in PositionsOf(c, "log_error") :
            /\ p = Len(trace[c]) => Len(Conversation) = trace[c][p].len
            /\ p < Len(trace[c]) =>
                 /\ trace[c][p + 1].len = trace[c][p].len
                 /\ trace[c][p + 1].ev = "done" => trace[c][p].i = 173

(***************************************************************************)
(* C6                                                                      *)
(***************************************************************************)
\* what C6 says of call c
C6_Holds(c) ==
    \* after a completion without fragments: no further request, no dispatch
    /\ \A p \in PositionsOf(c, "completion") :
          trace[c][p].i = 0 =>
              \A q \in DOMAIN trace[c] :
                  q > p => trace[c][q].ev \notin {"request", "completion"} \cup FragmentBegins
    \* the first completion has no fragment: one request, and seed plus answer returned
    /\ (pc[c] = "done" /\ trace[c][3].ev = "completion" /\ trace[c][3].i = 0) =>
          /\ rounds[c] = 1
          /\ ReturnedConversation(c) =
                 <<Message("user", query[c]), Message("assistant", trace[c][3].arg.s)>>

\* C6: the loop ends at the first completion without a call fragment, with no further
\* request or dispatch; when the first completion has none, the call made exactly one
\* request and returns 2 messages, the seed and the assistant message with that text.
C6_EndsAtFirstPlainCompletion == \A c \in Calls : C6_Holds(c)

\* the same, for the calls all of whose log writes succeeded
C6_WhenLogWritesSucceed == \A c \in Calls : LogWritesSucceeded(c) => C6_Holds(c)

(***************************************************************************)
(* C7                                                                      *)
(***************************************************************************)
\* "Tool 'search' returned: 42"
FixtureToolResult ==
    <<"T","o","o","l"," ","'","s","e","a","r","c","h","'"," ","r","e","t","u","r","n","e","d",
      ":"," ","4","2">>

\* the fixture's transport result {"text": "42"}
FixturePayload == PyDict(<<[k |-> KeyText, v |-> PyStr(Text42)]>>)

\* the text the tool-result message shows for a transport result
FormattedResult(content) == StrOf(_format_tool_result(content).val).s

\* the positions of round r where the transport returned for fragment i
TransportReturns(c, r, i) ==
    {p \in DOMAIN trace[c] :
        /\ RoundAt(c, p) = r
        /\ trace[c][p].ev \in {"tool_ok", "format_error"}
        /\ trace[c][p].i = i}

\* the positions of the completion of round r
CompletionOf(c, r) == {q \in PositionsOf(c, "completion") : RoundAt(c, q) = r}

\* what C7 says of call c
C7_Holds(c) ==
    LET first == trace[c][3]
        k == first.i
        conv == ReturnedConversation(c)
    IN  (/\ pc[c] = "done"
         /\ first.ev = "completion"
         /\ k >= 1
         /\ \A i \in 1..k : TransportReturns(c, 1, i) # {}
         /\ \E q \in CompletionOf(c, 2) : trace[c][q].i = 0)
        =>
        /\ Len(conv) = k + 3
        /\ conv[1] = Message("user", query[c])
        /\ conv[2] = Message("assistant", first.arg.s)
        /\ Len(FindFunctionCalls(conv[2].content)) = k
        /\ \A i \in 1..k :
              \A p \in TransportReturns(c, 1, i) :
                  /\ trace[c][p].ev = "tool_ok"
                  /\ trace[c][p].name = FindFunctionCalls(first.arg.s)[i].name
                  /\ conv[2 + i] = ToolResultMessage(trace[c][p].name,
                                                     FormattedResult(trace[c][p].arg))
                  /\ (first.arg.s = TextOneCall /\ trace[c][p].arg = FixturePayload) =>
                        /\ Len(conv) = 4
                        /\ conv[3].content = FixtureToolResult
        /\ \A q \in CompletionOf(c, 2) : conv[k + 3] = Message("assistant", trace[c][q].arg.s)

\* C7: when the first completion has k >= 1 fragments whose transport calls all
\* return and the second completion is plain text, the returned conversation is the
\* query, the first assistant text, one "Tool 'NAME' returned: ..." message per fragment
\* in order, and the second assistant text: k + 3 messages; for the fixture 4 messages,
\* the third reading "Tool 'search' returned: 42".
C7_ToolRoundThenAnswer == \A c \in Calls : C7_Holds(c)

\* the same, for the calls all of whose log writes succeeded and whose results the
\* formatter could turn into text
C7_WhenLogWritesSucceed ==
    \A c \in Calls :
        (LogWritesSucceeded(c) /\ PositionsOf(c, "format_error") = {}) => C7_Holds(c)

(***************************************************************************)
(* C8                                                                      *)
(***************************************************************************)
\* what C8 says of call c
C8_Holds(c) ==
    \* the assistant message of a round is the one message its completion adds
    /\ \A p \in PositionsOf(c, "completion") : trace[c][p].len = trace[c][p - 1].len + 1
    \* between two requests: the assistant message and one message per fragment
    /\ \A p \in PositionsOf(c, "request") :
          \A q \in PositionsOf(c, "request") :
              RoundAt(c, q) = RoundAt(c, p) + 1 =>
                  trace[c][q].len = trace[c][p].len + 1 + trace[c][p + 1].i
    \* the outcome message of fragment i is the i-th message after the assistant message
    /\ \A p \in DOMAIN trace[c] :
          trace[c][p].ev \in FragmentOutcomes =>
              \A q \in CompletionOf(c, RoundAt(c, p)) :
                  trace[c][p].len = trace[c][q].len + trace[c][p].i

\* C8: every loop iteration adds exactly one assistant message and, for a completion
\* with n fragments, exactly n further messages before the next completion request:
\* one per fragment, its formatted result or its error description, never both, never
\* none.
C8_OneMessagePerFragment == \A c \in Calls : C8_Holds(c)

\* the same, for the calls all of whose log writes succeeded
C8_WhenLogWritesSucceed == \A c \in Calls : LogWritesSucceeded(c) => C8_Holds(c)

(***************************************************************************)
(* C9                                                                      *)
(***************************************************************************)
\* C9: within one call the message list is append-only.  After seeding, every step of
\* the call keeps the same list object and leaves its messages as they are or adds one
\* message at the end, so that no message is removed, reordered or altered and the
\* list at any step is a prefix of the list at every later step; sending the
\* completion request leaves the list unchanged; and the list returned is that list.
C9_AppendOnly ==
    [][\A c \in Calls :
          (pc[c] \notin {"idle", "done"}) =>
              /\ self_messages' = self_messages
              /\ AppendedAtMostOne(heap[self_messages], heap'[self_messages'])
              /\ (pc[c] = "llm" /\ pc'[c] = "await_llm") =>
                     heap'[self_messages'] = heap[self_messages]
              /\ pc'[c] = "done" => ret'[c] = self_messages]_vars

\* a second request has been sent: its copy starts with the system instruction, with
\* the reminder added, and the conversation holds no system message
C9_Witness ==
    \E c \in Calls :
        /\ pc[c] = "await_llm"
        /\ rounds[c] = 2
        /\ llm_request[c][1].role = "system"
        /\ llm_request[c][1].content # create_system_message(tools).content
        /\ Len(llm_request[c]) = Len(Conversation) + 1
        /\ ~HasRole(Conversation, "system")

(***************************************************************************)
(* C10                                                                     *)
(***************************************************************************)
\* the round of position p of trace[c] is over: the call has ended, or has gone back
\* to the head of the while loop, or has begun a later round
RoundOver(c, r) ==
    \/ RoundAt(c, Len(trace[c])) > r
    \/ RoundAt(c, Len(trace[c])) = r /\ pc[c] \in {"done", "llm"}

\* what C10 says of call c
C10_Holds(c) ==
    /\ \A q \in DOMAIN trace[c] :
          trace[c][q].ev \in FragmentBegins =>
              LET i == trace[c][q].i
                  r == RoundAt(c, q)
              IN  \* the assistant message of the round was appended before
                  /\ \E p \in CompletionOf(c, r) :
                        /\ p < q
                        /\ trace[c][q].len >= trace[c][p].len
                        /\ trace[c][q].name = FindFunctionCalls(trace[c][p].arg.s)[i].name
                  \* the fragment before it has its outcome message
                  /\ i > 1 =>
                        \E p \in 1..(q - 1) :
                            /\ RoundAt(c, p) = r
                            /\ trace[c][p].ev \in FragmentOutcomes
                            /\ trace[c][p].i = i - 1
                  \* one at a time, left to right
                  /\ \A p \in 1..(q - 1) :
                        (RoundAt(c, p) = r /\ trace[c][p].ev \in FragmentBegins) =>
                            trace[c][p].i < i
    \* a failed fragment does not keep the later ones from being dispatched
    /\ \A p \in DOMAIN trace[c] :
          (/\ trace[c][p].ev \in {"tool_error", "decode_error", "format_error"}
           /\ RoundOver(c, RoundAt(c, p))) =>
              \A q \in CompletionOf(c, RoundAt(c, p)) :
                  \A j \in (trace[c][p].i + 1)..trace[c][q].i :
                      \E d \in DOMAIN trace[c] :
                          /\ d > p
                          /\ RoundAt(c, d) = RoundAt(c, p)
                          /\ trace[c][d].ev \in FragmentBegins
                          /\ trace[c][d].i = j
    \* the next completion is requested after every fragment has its outcome
    /\ \A p \in PositionsOf(c, "request") :
          RoundAt(c, p) > 1 =>
              \A q \in CompletionOf(c, RoundAt(c, p) - 1) :
                  \A j \in 1..trace[c][q].i :
                      \E d \in (q + 1)..(p - 1) :
                          /\ trace[c][d].ev \in FragmentOutcomes
                          /\ trace[c][d].i = j

\* C10: the steps of a query are strictly sequential: the assistant message comes
\* before any dispatch of its round, the fragments are dispatched one at a time from
\* left to right, each outcome message comes before the next dispatch, every fragment
\* is dispatched even after an earlier one of the same completion failed, and the next
\* completion is requested only when every fragment has its outcome message.
C10_StrictlySequential == \A c \in Calls : C10_Holds(c)

\* the same, for the calls all of whose log writes succeeded
C10_WhenLogWritesSucceed == \A c \in Calls : LogWritesSucceeded(c) => C10_Holds(c)

(***************************************************************************)
(* C11                                                                     *)
(***************************************************************************)
\* what C11 says of call c
C11_Holds(c) ==
    \A p \in PositionsOf(c, "decode_error") :
        LET r == RoundAt(c, p)
            i == trace[c][p].i
        IN  \* the transport is not called for the fragment
            /\ \A d \in DOMAIN trace[c] :
                  (RoundAt(c, d) = r /\ trace[c][d].i = i) =>
                      trace[c][d].ev \notin {"dispatch", "tool_ok", "tool_error", "format_error"}
            /\ p = Len(trace[c]) => pending[c] = NoCall /\ pc[c] # "await_tool"
            \* one error message, of the form of a transport failure's, naming the tool
            /\ trace[c][p].len = trace[c][p - 1].len + 1
            /\ p = Len(trace[c]) =>
                  Conversation[Len(Conversation)] =
                      ToolErrorMessage(trace[c][p].name,
                                       JsonErrorText(trace[c][p].arg.s,
                                                     JsonLoads(trace[c][p].arg.s)))
            \* the loop goes on with the remaining fragments
            /\ RoundOver(c, r) =>
                  \A q \in CompletionOf(c, r) :
                      \A j \in (i + 1)..trace[c][q].i :
                          \E d \in DOMAIN trace[c] :
                              /\ d > p
                              /\ RoundAt(c, d) = r
                              /\ trace[c][d].ev \in FragmentBegins
                              /\ trace[c][d].i = j
            \* and with the next completion
            /\ pc[c] = "done" => \E q \in PositionsOf(c, "request") : q > p

\* C11: when the argument text of a fragment does not decode, the transport is not
\* called for it, one error message of the form of a transport failure's, naming the
\* tool, is appended, and the loop goes on with the remaining fragments and the next
\* completion.
C11_DecodeFailureIsFedBack == \A c \in Calls : C11_Holds(c)

\* the same, for the calls all of whose log writes succeeded
C11_WhenLogWritesSucceed == \A c \in Calls : LogWritesSucceeded(c) => C11_Holds(c)

(***************************************************************************)
(* Two calls on the one client.  The client is shared by the routes and    *)
(* the chat bot, which run in one event loop.  A call gives the loop away  *)
(* only where it truly suspends: generate_completion and log_conversation  *)
(* are coroutines without an await of their own (the provider call and the *)
(* file write block the loop), so the one suspension point of              *)
(* process_query is the transport call of line 198.                        *)
(***************************************************************************)
\* call c may take a step: no other call is between two suspension points
CanRun(c) == \A d \in Calls \ {c} : pc[d] \in {"idle", "await_tool", "done"}

\* the query of each caller
QueryOf(c) == IF c = 1 THEN QueryHi ELSE QueryFind

\* the completions and the transport result of the two-call runs
FewCompletions == {PyStr(TextPlain), PyStr(TextOneCall)}
OnePayload == PyDict(<<[k |-> KeyText, v |-> PyStr(Text42)]>>)

\* the calls overlap as the event loop lets them; every log write succeeds
NextOverlap ==
    \/ ConnectToServer(<<ToolSearch>>, TRUE, FALSE)
    \/ \E c \in Calls : CanRun(c) /\ StartQuery(c, QueryOf(c))
    \/ \E c \in Calls : CanRun(c) /\ RequestCompletion(c)
    \/ \E c \in Calls, content \in FewCompletions : CanRun(c) /\ CompletionReturns(c, content)
    \/ \E c \in Calls : CanRun(c) /\ CompletionFails(c, ProviderError)
    \/ \E c \in Calls : CanRun(c) /\ LogConversation(c)
    \/ \E c \in Calls : CanRun(c) /\ DispatchTool(c)
    \/ \E c \in Calls : CanRun(c) /\ ToolReturns(c, OnePayload)
    \/ \E c \in Calls : CanRun(c) /\ ToolFails(c, TransportError)

SpecOverlap == Init /\ [][NextOverlap]_vars

\* the text the inner handler shows when the formatter or the f-string raised
FormatErrorText(content) ==
    LET formatted == _format_tool_result(content)
    IN  IF formatted.raised THEN formatted.msg ELSE StrOf(formatted.val).msg

\* the messages the p-th event of call c appended for its query
ProducedBy(c, p) ==
    LET e == trace[c][p]
    IN  CASE e.ev = "seed" -> <<Message("user", query[c])>>
          [] e.ev = "completion" -> <<Message("assistant", e.arg.s)>>
          [] e.ev = "tool_ok" -> <<ToolResultMessage(e.name, FormattedResult(e.arg))>>
          [] e.ev = "tool_error" -> <<ToolErrorMessage(e.name, e.arg.s)>>
          [] e.ev = "decode_error" ->
                <<ToolErrorMessage(e.name, JsonErrorText(e.arg.s, JsonLoads(e.arg.s)))>>
          [] e.ev = "format_error" -> <<ToolErrorMessage(e.name, FormatErrorText(e.arg))>>
          [] e.ev = "provider_error" -> <<SorryMessage(ProviderError)>>
          [] e.ev = "log_error" ->
                IF e.i = 210 THEN <<ToolErrorMessage(trace[c][p - 1].name, LogError)>>
                ELSE <<SorryMessage(LogError)>>
          [] OTHER -> <<>>

\* the messages the first k events of call c appended for its query, in order
RECURSIVE ProducedUpTo(_, _)
ProducedUpTo(c, k) ==
    IF k = 0 THEN <<>> ELSE ProducedUpTo(c, k - 1) \o ProducedBy(c, k)

\* the query of call c and the assistant and tool-outcome messages produced for it
OwnMessages(c) == ProducedUpTo(c, Len(trace[c]))

(***************************************************************************)
(* C12                                                                     *)
(***************************************************************************)
\* C12: when two calls on the same client overlap, the conversation returned to each
\* caller is, and stays, that caller's own: it starts with the caller's query and holds
\* exactly the assistant and tool-outcome messages produced for that query, and no step
\* of the other call changes it.
C12_ConversationOwnedByItsQuery ==
    \A c \in Calls :
        pc[c] = "done" =>
            /\ ReturnedConversation(c)[1] = Message("user", query[c])
            /\ ReturnedConversation(c) = OwnMessages(c)

\* the same for a call that has the client to itself: the conversation is at every
\* moment the query followed by the messages produced for it
C12_WhenAlone ==
    \A c \in Calls :
        (trace[c] # <<>> /\ \A d \in Calls \ {c} : pc[d] = "idle") =>
            Conversation = OwnMessages(c)

(***************************************************************************)
(* Two calls on the one client, the later one made when the earlier one    *)
(* has returned.                                                           *)
(***************************************************************************)
\* every call before c has returned
EarlierCallsReturned(c) == \A d \in Calls : d < c => pc[d] = "done"

NextSequential ==
    \/ ConnectToServer(<<ToolSearch>>, TRUE, FALSE)
    \/ \E c \in Calls : EarlierCallsReturned(c) /\ StartQuery(c, QueryOf(c))
    \/ \E c \in Calls : RequestCompletion(c)
    \/ \E c \in Calls, content \in FewCompletions : CompletionReturns(c, content)
    \/ \E c \in Calls : CompletionFails(c, ProviderError)
    \/ \E c \in Calls : LogConversation(c)
    \/ \E c \in Calls, opened \in BOOLEAN, flushed \in FlushedSizes :
          LogConversationFails(c, LogError, opened, flushed)
    \/ \E c \in Calls : DispatchTool(c)
    \/ \E c \in Calls : ToolReturns(c, OnePayload)
    \/ \E c \in Calls : ToolFails(c, TransportError)

SpecSequential == Init /\ [][NextSequential]_vars

(***************************************************************************)
(* C13                                                                     *)
(***************************************************************************)
\* C13: of two calls that do not overlap, the later one starts again from a single
\* seed message in a list of its own, its conversation holds its own messages only,
\* and the conversation the earlier call returned stays as it was returned, whether
\* the calls end with an answer or in the error handler.
C13_NoCrossQueryIdentity ==
    /\ pc[1] = "done" => ReturnedConversation(1) = OwnMessages(1)
    /\ trace[2] # <<>> =>
          /\ trace[2][1].ev = "seed"
          /\ trace[2][1].len = 1
          /\ self_messages # ret[1]
          /\ Conversation = OwnMessages(2)
          /\ Conversation[1] = Message("user", query[2])
          /\ \A i \in DOMAIN Conversation : Conversation[i] # Message("user", query[1])
    /\ pc[2] = "done" => ReturnedConversation(2) = OwnMessages(2) /\ ret[2] # ret[1]

\* both calls have returned conversations of three messages or more, the earlier after
\* a tool round, the later from the outer error handler
C13_Witness ==
    /\ pc[1] = "done"
    /\ pc[2] = "done"
    /\ PositionsOf(1, "tool_ok") # {}
    /\ Len(ReturnedConversation(1)) >= 4
    /\ Len(ReturnedConversation(2)) >= 3
    /\ PositionsOf(2, "provider_error") \cup PositionsOf(2, "log_error") # {}

(***************************************************************************)
(* C14                                                                     *)
(***************************************************************************)
\* every completion the provider has given call c so far holds a call fragment, and
\* the provider has not failed
ProviderAlwaysEmitsFragments(c) ==
    /\ PositionsOf(c, "provider_error") = {}
    /\ \A p \in PositionsOf(c, "completion") : trace[c][p].i >= 1

\* C14: the loop has no maximum round count, and with a provider that emits a call
\* fragment in every completion process_query never returns, whether the dispatched
\* tool calls succeed or fail.
C14_NeverReturnsWhileFragmentsCome ==
    \A c \in Calls : ProviderAlwaysEmitsFragments(c) => pc[c] # "done"

\* the same, for the calls all of whose log writes succeeded
C14_WhenLogWritesSucceed ==
    \A c \in Calls :
        (LogWritesSucceeded(c) /\ ProviderAlwaysEmitsFragments(c)) => pc[c] # "done"

\* no round count stops the loop: a call whose completions all held fragments, with
\* failed and successful tool calls, stands before its next request after as many
\* rounds as the model follows
C14_RoundsReachTheBound ==
    \E c \in Calls :
        /\ rounds[c] = MaxRounds
        /\ pc[c] = "llm"
        /\ PositionsOf(c, "tool_error") # {}
        /\ PositionsOf(c, "tool_ok") # {}

(***************************************************************************)
(* C15                                                                     *)
(***************************************************************************)
\* the text of the latest completion of call c
LatestCompletion(c) ==
    LET p == CHOOSE p \in PositionsOf(c, "completion") :
                 \A q \in PositionsOf(c, "completion") : q <= p
    IN  trace[c][p]

\* C15: every conversation process_query returns ends with a message of role
\* assistant whose content is a text: the latest completion, which then holds no call
\* fragment, when the loop ended by its break, and the synthetic error answer on every
\* other path (provider failure, log-write failure, also after a tool failure).
C15_EndsWithAssistantText ==
    \A c \in Calls :
        pc[c] = "done" =>
            LET conv == ReturnedConversation(c)
                last == conv[Len(conv)]
                cause == trace[c][Len(trace[c]) - 1]
            IN  /\ last.role = "assistant"
                /\ last.content \in Seq(Range(last.content))
                /\ IF cause.ev = "log_ok"
                   THEN /\ LatestCompletion(c).i = 0
                        /\ FindFunctionCalls(last.content) = <<>>
                        /\ last = Message("assistant", LatestCompletion(c).arg.s)
                   ELSE /\ cause.ev \in {"provider_error", "log_error"}
                        /\ last = SorryMessage(IF cause.ev = "provider_error"
                                               THEN ProviderError ELSE LogError)
                        /\ last.content # <<>>

\* a call has returned after a tool failure whose log write failed: the error answer
\* follows the tool error message
C15_Witness ==
    \E c \in Calls :
        /\ pc[c] = "done"
        /\ PositionsOf(c, "tool_error") # {}
        /\ trace[c][Len(trace[c]) - 1].ev = "log_error"
        /\ trace[c][Len(trace[c]) - 1].i = 218
        /\ ReturnedConversation(c)[Len(ReturnedConversation(c)) - 1].role = "user"

(***************************************************************************)
(* C16                                                                     *)
(***************************************************************************)
\* C16: the dispatch does not look at the declared tools: in the turn of a fragment
\* whose arguments decode, the transport is called with the fragment's name and the
\* decoded arguments, whether the name is declared or not, and nothing is appended;
\* and when the transport call fails, the error message naming the tool is appended
\* as for any tool failure.
C16_UndeclaredNamesAreForwarded ==
    [][\A c \in Calls :
          /\ (pc[c] = "dispatch" /\ pc'[c] # "dispatch") =>
                LET fragment == function_matches[c][idx[c]]
                    decoded == JsonLoads(WrapArgs(fragment.args))
                IN  IF decoded.ok
                    THEN /\ pc'[c] = "await_tool"
                         /\ pending'[c] = [name |-> fragment.name, args |-> decoded.val]
                         /\ heap' = heap
                    ELSE /\ pc'[c] = "log218"
                         /\ pending'[c] = NoCall
          /\ (pc[c] = "await_tool" /\ pc'[c] = "log218"
                /\ trace'[c][Len(trace'[c])].ev = "tool_error") =>
                /\ self_messages' = self_messages
                /\ heap'[self_messages] =
                       Append(Conversation, ToolErrorMessage(pending[c].name, TransportError))]_vars

\* the transport has been called for fetch, which is not among the declared tools,
\* has failed, and the error message naming fetch ends the conversation
C16_Witness ==
    \E c \in Calls :
        /\ tools = <<ToolSearch>>
        /\ pc[c] = "log218"
        /\ LastEvent(c).ev = "tool_error"
        /\ LastEvent(c).name = ToolFetch
        /\ trace[c][Len(trace[c]) - 1].ev = "dispatch"
        /\ trace[c][Len(trace[c]) - 1].name = ToolFetch
        /\ Conversation[Len(Conversation)] = ToolErrorMessage(ToolFetch, TransportError)

(***************************************************************************)
(* C17                                                                     *)
(***************************************************************************)
\* '<function=tool_name{"param":"value"}>'
CallSyntax ==
    <<"<","f","u","n","c","t","i","o","n","=","t","o","o","l","_","n","a","m","e","{","\"","p",
      "a","r","a","m","\"",":","\"","v","a","l","u","e","\"","}",">">>

\* the name, as the system instruction lists it
Listed(name) == <<GraveAccent>> \o name \o <<GraveAccent>>

\* what C17 says of a request sent for the conversation conv with the declared tools
C17_RequestIsWellFormed(request, conv, declared) ==
    /\ Len(request) = Len(conv) + 1
    /\ Cardinality({i \in DOMAIN request : request[i].role = "system"}) = 1
    /\ request[1].role = "system"
    /\ \A name \in Range(declared) : Contains(request[1].content, Listed(name))
    /\ \A name \in {ToolSearch, ToolFetch} \ Range(declared) :
          ~Contains(request[1].content, Listed(name))
    /\ Contains(request[1].content, CallSyntax)
    /\ SubSeq(request, 2, Len(request)) = conv

\* C17: in every round the provider is sent one system instruction, which names
\* exactly the declared tools and the call syntax, followed by the whole conversation
\* in order; the conversation never holds the system instruction; and the declared
\* tools stay as they were cached when the connection was made.
C17_EveryRequestCarriesInstructionAndConversation ==
    [][\A c \in Calls :
          /\ (pc[c] = "llm" /\ pc'[c] = "await_llm") =>
                /\ C17_RequestIsWellFormed(llm_request'[c], Conversation, tools)
                /\ \A p \in DOMAIN trace[c] :
                      trace[c][p].ev \in FragmentOutcomes =>
                          \E j \in DOMAIN llm_request'[c] :
                              llm_request'[c][j] = Conversation[trace[c][p].len]
          /\ ~HasRole(heap'[self_messages'], "system")
          /\ app.phase = "serving" => tools' = tools]_vars

\* the same, when at least one tool is declared
C17_WhenToolsAreDeclared ==
    [][\A c \in Calls :
          /\ (pc[c] = "llm" /\ pc'[c] = "await_llm" /\ tools # <<>>) =>
                /\ C17_RequestIsWellFormed(llm_request'[c], Conversation, tools)
                /\ \A p \in DOMAIN trace[c] :
                      trace[c][p].ev \in FragmentOutcomes =>
                          \E j \in DOMAIN llm_request'[c] :
                              llm_request'[c][j] = Conversation[trace[c][p].len]
          /\ ~HasRole(heap'[self_messages'], "system")
          /\ app.phase = "serving" => tools' = tools]_vars

(***************************************************************************)
(* One call while the wall clock runs: the name of a log file is the       *)
(* second of its writing.                                                  *)
(***************************************************************************)
NextLog ==
    \/ ConnectToServer(<<ToolSearch>>, TRUE, FALSE)
    \/ Tick
    \/ StartQuery(1, QueryHi)
    \/ RequestCompletion(1)
    \/ \E content \in FewCompletions : CompletionReturns(1, content)
    \/ CompletionFails(1, ProviderError)
    \/ LogConversation(1)
    \/ \E opened \in BOOLEAN, flushed \in FlushedSizes :
          LogConversationFails(1, LogError, opened, flushed)
    \/ DispatchTool(1)
    \/ ToolReturns(1, OnePayload)
    \/ ToolFails(1, TransportError)

SpecLog == Init /\ [][NextLog]_vars

(***************************************************************************)
(* C18                                                                     *)
(***************************************************************************)
\* the snapshot the log write at position p of trace[c] persisted: the whole
\* conversation of that moment
SnapshotAt(c, p) == Serializable(SubSeq(OwnMessages(c), 1, trace[c][p].len))

\* a is a proper prefix of b
ProperPrefix(a, b) == Len(a) < Len(b) /\ SubSeq(b, 1, Len(a)) = a

\* what C18 says of call c
C18_Holds(c) ==
    LET writes == PositionsOf(c, "log_ok")
    IN  \* every loop iteration has written a snapshot before the next one begins
        /\ \A r \in 1..(RoundAt(c, Len(trace[c])) - 1) :
              \E p \in writes : RoundAt(c, p) = r
        \* n writes have left n records
        /\ Cardinality(DOMAIN files) = Cardinality(writes)
        \* the snapshot of every write is there, none was replaced by a later one
        /\ \A p \in writes :
              \E t \in DOMAIN files : files[t] = FileHolding(SnapshotAt(c, p))
        \* each record is the whole list of its moment, a proper prefix of the next
        /\ \A p, q \in writes : p < q => ProperPrefix(SnapshotAt(c, p), SnapshotAt(c, q))

\* C18: every loop iteration writes a snapshot, each snapshot holds the whole message
\* list of its moment, and each write leaves a record of its own: n log writes of one
\* query leave n records, each a proper prefix of the next, and no later snapshot
\* replaces an earlier one.
C18_OneRecordPerSnapshot == C18_Holds(1)

\* the same, for the calls whose log writes all succeeded, no two of them in the
\* same second
C18_WhenNoTwoWritesShareASecond ==
    (/\ PositionsOf(1, "log_error") = {}
     /\ \A p, q \in PositionsOf(1, "log_ok") :
           p # q => trace[1][p].arg.n # trace[1][q].arg.n) => C18_Holds(1)

(***************************************************************************)
(* Start-up, with and without a chat-bot token, and one call.              *)
(***************************************************************************)
NextStartup ==
    \/ \E declared \in ToolSets, discord_token \in BOOLEAN, bot_raises \in BOOLEAN :
          ConnectToServer(declared, discord_token, bot_raises)
    \/ ConnectFails
    \/ \E raises \in BOOLEAN : Cleanup(raises)
    \/ \E raises \in BOOLEAN : CloseBot(raises)
    \/ StartQuery(1, QueryHi)
    \/ RequestCompletion(1)
    \/ \E content \in FewCompletions : CompletionReturns(1, content)
    \/ CompletionFails(1, ProviderError)
    \/ LogConversation(1)
    \/ \E opened \in BOOLEAN, flushed \in FlushedSizes :
          LogConversationFails(1, LogError, opened, flushed)
    \/ DispatchTool(1)
    \/ ToolReturns(1, OnePayload)
    \/ ToolFails(1, TransportError)

SpecStartup == Init /\ [][NextStartup]_vars

(***************************************************************************)
(* C19                                                                     *)
(***************************************************************************)
\* C19: when the connection cannot be made, no tool is cached, lifespan goes no
\* further: the client is not published to the routes and the chat bot is not started,
\* so no query is processed, then or ever, on a client that is not connected; and
\* lifespan ends only after the client's cleanup has run.
C19_ConnectionFailureIsFatal ==
    /\ app.phase \in {"aborting", "failed"} =>
          /\ ~app.connected
          /\ tools = <<>>
          /\ ~app.published
          /\ ~app.bot_started
          /\ \A c \in Calls : pc[c] = "idle" /\ trace[c] = <<>>
    /\ \A c \in Calls : pc[c] # "idle" => app.connected
    /\ app.phase \in {"failed", "closing", "ended"} => app.cleaned_up

\* the start has failed and the cleanup has run
C19_Witness ==
    /\ app.phase = "failed"
    /\ app.cleaned_up
    /\ ~app.connected
    /\ tools = <<>>

(***************************************************************************)
(* C20                                                                     *)
(***************************************************************************)
\* what C20 says of call c, whose query is the empty text
C20_Holds(c) ==
    \* accepted: the seed is recorded, on a conversation of one message, and the call
    \* does not raise
    /\ trace[c][1].ev = "seed" /\ trace[c][1].len = 1
    /\ pc[c] # "raised"
    /\ heap[self_messages][1] = Message("user", <<>>) \/ pc[c] = "done"
    \* single turn: the provider's answer to it carries no fragment, and the call made
    \* one request and returns the empty user message and the answer
    /\ (pc[c] = "done" /\ trace[c][3].ev = "completion" /\ trace[c][3].i = 0) =>
          /\ rounds[c] = 1
          /\ Len(ReturnedConversation(c)) = 2
          /\ ReturnedConversation(c)[1] = Message("user", <<>>)
          /\ ReturnedConversation(c)[2] = Message("assistant", trace[c][3].arg.s)

\* C20: a call with the empty query text is accepted without an error: the conversation
\* is seeded with a user message of empty content, and when the provider answers it
\* without a call fragment the call made one completion request and returns 2 messages.
C20_EmptyQueryIsSingleTurn ==
    \A c \in Calls : (pc[c] # "idle" /\ query[c] = <<>>) => C20_Holds(c)

\* the same, for the calls all of whose log writes succeeded
C20_WhenLogWritesSucceed ==
    \A c \in Calls :
        (pc[c] # "idle" /\ query[c] = <<>> /\ LogWritesSucceeded(c)) => C20_Holds(c)

\* an empty query answered in one turn
C20_SingleTurnReached ==
    \E c \in Calls :
        /\ pc[c] = "done" /\ query[c] = <<>> /\ rounds[c] = 1
        /\ Len(ReturnedConversation(c)) = 2

(***************************************************************************)
(* The call-syntax parser inside the loop: completions whose text carries  *)
(* one fragment, built from a name, a JSON object literal and the text     *)
(* around it, and completions that carry none.                             *)
(***************************************************************************)
NameSearch == <<"s","e","a","r","c","h">>
NameGet2 == <<"g","e","t","_","2">>
FragmentNames == {NameSearch, NameGet2}

KeyQuery == <<"q","u","e","r","y">>
KeyA == <<"a">>
KeyB == <<"b">>
KeyQ == <<"q">>

\* JSON object literals, each with the map it denotes
LiteralFlat ==
    [text |-> <<"{","\"","q","u","e","r","y","\"",":","\"","x","\"","}">>,
     denotes |-> PyDict(<<[k |-> KeyQuery, v |-> PyStr(<<"x">>)]>>)]
LiteralSpaced ==
    [text |-> <<"{"," ","\"","q","u","e","r","y","\""," ",":"," ","\"","x","\""," ","}">>,
     denotes |-> PyDict(<<[k |-> KeyQuery, v |-> PyStr(<<"x">>)]>>)]
LiteralNested ==
    [text |-> <<"{","\"","a","\"",":","{","\"","b","\"",":","1","}","}">>,
     denotes |-> PyDict(<<[k |-> KeyA, v |-> PyDict(<<[k |-> KeyB, v |-> PyInt(1)]>>)]>>)]
LiteralEmpty ==
    [text |-> <<"{","}">>,
     denotes |-> PyDict(<<>>)]
LiteralSeveralLines ==
    [text |-> <<"{","\n","\"","q","u","e","r","y","\"",":","\"","x","\"","\n","}">>,
     denotes |-> PyDict(<<[k |-> KeyQuery, v |-> PyStr(<<"x">>)]>>)]
LiteralCloserInString ==
    [text |-> <<"{","\"","q","\"",":","\"","}",">","\"","}">>,
     denotes |-> PyDict(<<[k |-> KeyQ, v |-> PyStr(<<"}", ">">>)]>>)]
ObjectLiterals ==
    {LiteralFlat, LiteralSpaced, LiteralNested, LiteralEmpty, LiteralSeveralLines,
     LiteralCloserInString}

\* the text before and after the fragment
ProseBefore == <<"I","f"," ","a"," ","<"," ","b"," ","{","s","e","e"," ","b","e","l","o","w","}",":",
      " ">>
ProseAfter == <<" ","<","d","o","n","e",">"," ","{","}">>
Surroundings == {[pre |-> <<>>, post |-> <<>>], [pre |-> ProseBefore, post |-> ProseAfter]}

\* <function=NAME{ARGS}> inside text
FragmentText(name, literal, around) ==
    around.pre \o FunctionPrefix \o name \o literal \o <<">">> \o around.post

WellFormedFragments ==
    {[name |-> name, literal |-> literal, around |-> around] :
        name \in FragmentNames, literal \in ObjectLiterals, around \in Surroundings}

TextOfFragment(f) == FragmentText(f.name, f.literal.text, f.around)

\* a fragment whose argument text comes with braces of its own: <function=NAME{{...}}>
BracedFragments ==
    {[name |-> name, literal |-> literal, around |-> around] :
        name \in FragmentNames, literal \in {LiteralFlat, LiteralNested},
        around \in Surroundings}

TextOfBraced(f) == FragmentText(f.name, <<"{">> \o f.literal.text \o <<"}">>, f.around)

\* texts without any fragment of the pattern: prose with '<' and '{', a fragment
\* without braces, a name that is no identifier, a prefix that is not exact
TextProse == <<"i","f"," ","a"," ","<"," ","b"," ","t","h","e","n"," ","{","x","}"," ","e","l","s",
      "e"," ","<","y",">"," ","="," ","{","\"","k","\"",":","\"","v","\"","}">>
TextNoBraces == <<"<","f","u","n","c","t","i","o","n","=","s","e","a","r","c","h","\"","a","\"",":",
      "\"","b","\"",">">>
TextHalfOpen == <<"<","f","u","n","c","t","i","o","n","=","s","e","a","r","c","h","{","\"","a","\"",
      ":","\"","b","\"",">">>
TextBadName == <<"<","f","u","n","c","t","i","o","n","=","a","-","b","{","\"","a","\"",":","\"","b",
      "\"","}",">"," ","<","f","u","n","c","t","i","o","n","=","{","\"","a","\"",":","\"",
      "b","\"","}",">">>
TextSpacedPrefix == <<"<","f","u","n","c","t","i","o","n"," ","="," ","s","e","a","r","c","h","{","\"",
      "a","\"",":","\"","b","\"","}",">"," ","<","f","u","n","c","t","i","o","n","=","s",
      "e","a","r","c","h"," ","{","\"","a","\"",":","\"","b","\"","}",">">>
TextUpperPrefix == <<"<","F","u","n","c","t","i","o","n","=","s","e","a","r","c","h","{","\"","a","\"",
      ":","\"","b","\"","}",">"," ","<","f","u","n","c","t","i","o","n","s","=","s","e",
      "a","r","c","h","{","\"","a","\"",":","\"","b","\"","}",">">>
TextNotClosed == <<"<","f","u","n","c","t","i","o","n","=","s","e","a","r","c","h","{","\"","a","\"",
      ":","\"","b","\"","}"," ",">">>
FragmentFreeTexts ==
    {<<>>, TextPlain, TextProse, TextNoBraces, TextHalfOpen, TextBadName, TextSpacedPrefix,
     TextUpperPrefix, TextNotClosed}

ParserCompletions ==
    {PyStr(TextOfFragment(f)) : f \in WellFormedFragments}
        \cup {PyStr(TextOfBraced(f)) : f \in BracedFragments}
        \cup {PyStr(t) : t \in FragmentFreeTexts}
        \cup {PyNone}

\* the fixtures are the answers to the first request, two of the loop's texts the
\* answers to the later ones
ParserCompletionsAt(round) == IF round = 1 THEN ParserCompletions ELSE FewCompletions

NextParser ==
    \/ ConnectToServer(<<ToolSearch>>, TRUE, FALSE)
    \/ StartQuery(1, QueryHi)
    \/ RequestCompletion(1)
    \/ \E content \in ParserCompletionsAt(rounds[1]) : CompletionReturns(1, content)
    \/ LogConversation(1)
    \/ \E opened \in BOOLEAN, flushed \in FlushedSizes :
          LogConversationFails(1, LogError, opened, flushed)
    \/ DispatchTool(1)
    \/ ToolReturns(1, OnePayload)

SpecParser == Init /\ [][NextParser]_vars

(***************************************************************************)
(* C21                                                                     *)
(***************************************************************************)
\* what C21 says of call c when its latest completion is the text of fragment f, whose
\* argument text was captured as the loop expects it (wrapped says whether the loop has
\* to add the braces)
C21_HoldsFor(c, text, f, wrapped) ==
    assistant_content[c] = text =>
        \* parsing yields one pair, with the name
        /\ Len(function_matches[c]) = 1
        /\ function_matches[c][1].name = f.name
        \* the braces are added exactly when the captured text lacks them
        /\ (WrapArgs(function_matches[c][1].args) # function_matches[c][1].args) = wrapped
        \* decoding does not fail, and what goes to the transport is the name and the map
        /\ trace[c][Len(trace[c])].ev # "decode_error"
        /\ pc[c] = "await_tool" => pending[c] = [name |-> f.name, args |-> f.literal.denotes]

\* C21: for every well-formed fragment <function=NAME{ARGS}> inside text, with {ARGS} a
\* JSON object literal, flat or nested, on one line or several, parsing, re-wrapping and
\* decoding yield the name NAME and the map that {ARGS} denotes; the braces are added
\* exactly when the captured argument text lacks them.
C21_WellFormedFragmentsDecode ==
    \A c \in Calls :
        /\ \A f \in WellFormedFragments : C21_HoldsFor(c, TextOfFragment(f), f, TRUE)
        /\ \A f \in BracedFragments : C21_HoldsFor(c, TextOfBraced(f), f, FALSE)

\* the same, for the literals on one line that have no "}>" inside
C21_WhenOnOneLineWithoutCloser ==
    \A c \in Calls :
        /\ \A f \in WellFormedFragments :
              f.literal \notin {LiteralSeveralLines, LiteralCloserInString} =>
                  C21_HoldsFor(c, TextOfFragment(f), f, TRUE)
        /\ \A f \in BracedFragments : C21_HoldsFor(c, TextOfBraced(f), f, FALSE)

\* a nested literal inside prose has been decoded and sent
C21_NestedReached ==
    \E c \in Calls, f \in WellFormedFragments :
        /\ f.literal = LiteralNested /\ f.around.pre # <<>>
        /\ assistant_content[c] = TextOfFragment(f)
        /\ pc[c] = "await_tool"
        /\ pending[c].args = LiteralNested.denotes

(***************************************************************************)
(* C22                                                                     *)
(***************************************************************************)
\* what C22 says of call c
C22_Holds(c) ==
    /\ pc[c] # "raised"
    /\ \A p \in PositionsOf(c, "completion") :
          trace[c][p].arg.s \in FragmentFreeTexts =>
              \* the match list is empty
              /\ trace[c][p].i = 0
              /\ p = Len(trace[c]) => function_matches[c] = <<>> /\ pc[c] = "log173"
              \* the text is the final answer: it is the assistant message appended, and
              \* no request and no dispatch follows
              /\ \A q \in DOMAIN trace[c] :
                    q > p => trace[c][q].ev \notin {"request", "completion"} \cup FragmentBegins
              /\ pc[c] = "done" =>
                    ReturnedConversation(c)[trace[c][p].len] =
                        Message("assistant", trace[c][p].arg.s)

\* C22: a text without a fragment of the exact pattern <function=NAME{...}> gives an
\* empty match list and no exception: prose with '<' or '{' gives no match, a fragment
\* without braces gives no match; the loop takes the text as the final answer.
C22_NoFragmentNoMatch == \A c \in Calls : C22_Holds(c)

\* a fragment written without braces was the final answer
C22_Witness ==
    \E c \in Calls :
        /\ pc[c] = "done"
        /\ assistant_content[c] = TextNoBraces
        /\ function_matches[c] = <<>>
        /\ rounds[c] = 1
        /\ ReturnedConversation(c)[2] = Message("assistant", TextNoBraces)

(***************************************************************************)
(* The result formatter inside the loop: the transport's answers to the    *)
(* first tool call range over payloads of every shape.                     *)
(***************************************************************************)
TextAB == <<"a","\n","b">>
TextPadded == <<" ","4","2","\n">>
TextY == <<"y">>
ReprObj == <<"<","o","b","j",">">>
ReprBoom == <<"b","o","o","m">>
KeyOther == <<"a">>

\* the values a text field may hold: texts, and values of other types
TextFieldValues ==
    {PyStr(Text42), PyStr(<<>>), PyStr(TextAB), PyInt(42), PyNone, PyList(<<>>)}

\* structured objects with a text field: an object with the attribute, a mapping with
\* the key (alone, or after another key)
ObjectsWithText == {PyObject(TRUE, v, TRUE, ReprObj) : v \in TextFieldValues}
MappingsWithText ==
    {PyDict(<<[k |-> KeyText, v |-> v]>>) : v \in TextFieldValues}
        \cup {PyDict(<<[k |-> KeyOther, v |-> PyInt(1)], [k |-> KeyText, v |-> PyStr(Text42)]>>)}

\* structured objects without one
MappingOther == PyDict(<<[k |-> KeyOther, v |-> PyInt(1)]>>)
MappingNested ==
    PyDict(<<[k |-> KeyOther,
              v |-> PyDict(<<[k |-> <<"b">>, v |-> PyList(<<PyInt(1), PyStr(TextY)>>)]>>)]>>)
MappingOfObject == PyDict(<<[k |-> KeyOther, v |-> PyObject(FALSE, PyNone, TRUE, ReprObj)]>>)
MappingOfUnprintable ==
    PyDict(<<[k |-> KeyOther, v |-> PyObject(FALSE, PyNone, FALSE, ReprBoom)]>>)
MappingsWithoutText ==
    {PyDict(<<>>), MappingOther, MappingNested, MappingOfObject, MappingOfUnprintable}
ObjectsWithoutText ==
    {PyObject(FALSE, PyNone, TRUE, ReprObj), PyObject(FALSE, PyNone, FALSE, ReprBoom)}

\* what a sequence may hold
PlainItems == {PyStr(TextY), PyStr(<<>>), PyInt(3), PyNone}
SequenceItems ==
    PlainItems \cup ObjectsWithText \cup MappingsWithText \cup ObjectsWithoutText
        \cup {MappingOther}
PairItems ==
    {PyStr(TextY), PyInt(3), PyObject(TRUE, PyStr(Text42), TRUE, ReprObj),
     PyObject(TRUE, PyInt(42), TRUE, ReprObj),
     PyDict(<<[k |-> KeyText, v |-> PyStr(TextAB)]>>),
     PyObject(FALSE, PyNone, FALSE, ReprBoom)}
Sequences ==
    {PyList(<<>>)} \cup {PyList(<<a>>) : a \in SequenceItems}
        \cup {PyList(<<a, b>>) : a \in PairItems, b \in PairItems}

Scalars ==
    {PyNone, PyStr(<<>>), PyStr(Text42), PyStr(TextAB), PyStr(TextPadded), PyInt(7),
     PyBool(TRUE)}

FormatterPayloads ==
    Scalars \cup Sequences \cup MappingsWithText \cup MappingsWithoutText
        \cup ObjectsWithText \cup ObjectsWithoutText

\* the fixtures are the answers to the first tool call, one value the answer to the later ones
FormatterPayloadsAt(round) == IF round = 1 THEN FormatterPayloads ELSE {OnePayload}

NextFormatter ==
    \/ ConnectToServer(<<ToolSearch>>, TRUE, FALSE)
    \/ StartQuery(1, QueryHi)
    \/ RequestCompletion(1)
    \/ \E content \in FewCompletions : CompletionReturns(1, content)
    \/ LogConversation(1)
    \/ DispatchTool(1)
    \/ \E content \in FormatterPayloadsAt(rounds[1]) : ToolReturns(1, content)

SpecFormatter == Init /\ [][NextFormatter]_vars

\* the payload of call c's latest _format_tool_result
LatestPayload(c) ==
    LET at == PositionsOf(c, "tool_ok") \cup PositionsOf(c, "format_error")
    IN  trace[c][CHOOSE p \in at : \A q \in at : q <= p].arg

\* call c has formatted a payload
HasFormatted(c) == formatted_content[c] # Unbound

(***************************************************************************)
(* C23                                                                     *)
(***************************************************************************)
\* C23: for every tool-result payload, whatever its shape and whatever the type of its
\* text fields, the result formatter returns a single string and never raises.
C23_FormatterReturnsAString ==
    \A c \in Calls :
        HasFormatted(c) =>
            /\ ~formatted_content[c].raised
            /\ formatted_content[c].val.t = "str"

\* the text fields the formatter reads hold texts: the key of a mapping, and the
\* attribute or key of each item of a sequence
TextFieldsHoldText(content) ==
    /\ (content.t = "dict" /\ HasKey(content.entries, KeyText)) =>
          GetItem(content.entries, KeyText).t = "str"
    /\ content.t = "list" =>
          \A i \in DOMAIN content.items :
              LET item == content.items[i]
              IN  /\ (item.t = "object" /\ item.hastext) => item.text.t = "str"
                  /\ (item.t = "dict" /\ HasKey(item.entries, KeyText)) =>
                        GetItem(item.entries, KeyText).t = "str"

\* the same, for the payloads whose text fields hold texts
C23_WhenTextFieldsHoldText ==
    \A c \in Calls :
        (HasFormatted(c) /\ TextFieldsHoldText(LatestPayload(c))) =>
            /\ ~formatted_content[c].raised
            /\ formatted_content[c].val.t = "str"

\* a mapping whose only entry is an object that cannot be printed gave the placeholder
C23_PlaceholderReached ==
    \E c \in Calls :
        /\ HasFormatted(c)
        /\ LatestPayload(c) = MappingOfUnprintable
        /\ formatted_content[c] = Returned(PyStr(UnprintableContent))

(***************************************************************************)
(* C24                                                                     *)
(***************************************************************************)
\* '{\n  "a": 1\n}': json.dumps({"a": 1}, indent=2)
PrettyMappingOther == <<"{", "\n", " ", " ", "\"", "a", "\"", ":", " ", "1", "\n", "}">>

\* what C24 says of a payload and the formatter's outcome for it
C24_HoldsFor(content, outcome) ==
    \* a mapping with a text key: the value of the key
    /\ (content.t = "dict" /\ HasKey(content.entries, KeyText)) =>
          outcome = Returned(GetItem(content.entries, KeyText))
    \* an object with a text attribute: the value of the attribute
    /\ (content.t = "object" /\ content.hastext) => outcome = Returned(content.text)
    \* a structured object without a text field: the pretty-printed serialization
    /\ content = MappingOther => outcome = Returned(PyStr(PrettyMappingOther))

\* C24: a top-level structured object with a text field, be it a mapping with the key or
\* an object with the attribute, is formatted as exactly that field's value, never as a
\* serialization or generic rendering; only one without a text field is pretty-printed.
C24_TextFieldWins ==
    \A c \in Calls : HasFormatted(c) => C24_HoldsFor(LatestPayload(c), formatted_content[c])

\* the same, for the payloads that are no objects with a text attribute
C24_ForMappings ==
    \A c \in Calls :
        (HasFormatted(c) /\ LatestPayload(c).t # "object") =>
            C24_HoldsFor(LatestPayload(c), formatted_content[c])

\* a mapping with another key before its text key gave the text
C24_MappingReached ==
    \E c \in Calls :
        /\ HasFormatted(c)
        /\ LatestPayload(c) =
               PyDict(<<[k |-> KeyOther, v |-> PyInt(1)], [k |-> KeyText, v |-> PyStr(Text42)]>>)
        /\ formatted_content[c] = Returned(PyStr(Text42))

(***************************************************************************)
(* C25                                                                     *)
(***************************************************************************)
\* no value, empty text, empty sequence, empty structured object
EmptyPayloads == {PyNone, PyStr(<<>>), PyList(<<>>), PyDict(<<>>)}

\* C25: for an absent or empty payload (no value, empty text, empty sequence, empty
\* structured object) the formatter returns the empty string.
C25_EmptyGivesEmpty ==
    \A c \in Calls :
        (HasFormatted(c) /\ LatestPayload(c) \in EmptyPayloads) =>
            formatted_content[c] = Returned(PyStr(<<>>))

\* the same, without the empty structured object
C25_ExceptEmptyMapping ==
    \A c \in Calls :
        (HasFormatted(c) /\ LatestPayload(c) \in EmptyPayloads \ {PyDict(<<>>)}) =>
            formatted_content[c] = Returned(PyStr(<<>>))

\* the empty sequence gave the empty string
C25_EmptySequenceReached ==
    \E c \in Calls :
        /\ HasFormatted(c)
        /\ LatestPayload(c) = PyList(<<>>)
        /\ formatted_content[c] = Returned(PyStr(<<>>))

(***************************************************************************)
(* C26                                                                     *)
(***************************************************************************)
\* the text of a value: itself when it is a text, its generic rendering otherwise (the
\* placeholder when it has none)
AsText(v) ==
    IF v.t = "str" THEN v.s
    ELSE IF StrOf(v).ok THEN StrOf(v).s
    ELSE UnprintableItem

\* the piece C26 expects for an item of a sequence
ExpectedPiece(item) ==
    IF item.t = "object" /\ item.hastext THEN AsText(item.text)
    ELSE IF item.t = "dict" /\ HasKey(item.entries, KeyText)
         THEN AsText(GetItem(item.entries, KeyText))
    ELSE AsText(item)

\* what C26 says of a payload and the formatter's outcome for it
C26_HoldsFor(content, outcome) ==
    content.t = "list" =>
        /\ ~outcome.raised
        /\ outcome.val =
               PyStr(Join(<<"\n">>, [i \in DOMAIN content.items |->
                                        ExpectedPiece(content.items[i])]))

\* C26: a payload that is a sequence is formatted item by item, each item converted to
\* text, by its own text field (attribute or key) when it has one and by a generic
\* rendering otherwise, and the pieces are joined with newlines in the order of the
\* sequence.
C26_SequenceIsJoined ==
    \A c \in Calls : HasFormatted(c) => C26_HoldsFor(LatestPayload(c), formatted_content[c])

\* the same, for the sequences whose text fields hold texts
C26_WhenTextFieldsHoldText ==
    \A c \in Calls :
        (HasFormatted(c) /\ TextFieldsHoldText(LatestPayload(c))) =>
            C26_HoldsFor(LatestPayload(c), formatted_content[c])

\* "a\nb\n42": the pieces of a mapping item and an object item, in their order
PiecesInOrder == <<"a", "\n", "b", "\n", "4", "2">>

C26_PairReached ==
    \E c \in Calls :
        /\ HasFormatted(c)
        /\ LatestPayload(c) =
               PyList(<<PyDict(<<[k |-> KeyText, v |-> PyStr(TextAB)]>>),
                        PyObject(TRUE, PyStr(Text42), TRUE, ReprObj)>>)
        /\ formatted_content[c] = Returned(PyStr(PiecesInOrder))

(***************************************************************************)
(* C27                                                                     *)
(***************************************************************************)
\* C27: the formatter is the identity on plain text: a payload that is a string is
\* returned unchanged, and formatting an already formatted string again returns the
\* same string.
C27_IdentityOnText ==
    \A c \in Calls :
        HasFormatted(c) =>
            /\ LatestPayload(c).t = "str" => formatted_content[c] = Returned(LatestPayload(c))
            /\ (~formatted_content[c].raised /\ formatted_content[c].val.t = "str") =>
                  _format_tool_result(formatted_content[c].val) = formatted_content[c]

\* a text with blanks and a newline around it came back as it was
C27_Witness ==
    \E c \in Calls :
        /\ HasFormatted(c)
        /\ LatestPayload(c) = PyStr(TextPadded)
        /\ formatted_content[c] = Returned(PyStr(TextPadded))

(***************************************************************************)
(* C28                                                                     *)
(***************************************************************************)
MessageRoles == {"user", "system", "assistant", "tool"}

\* the events of trace that append a message, with the role C28 gives it; the message is
\* at the length the event recorded
RoleAppendedBy(ev) ==
    CASE ev = "seed" -> "user"
      [] ev = "completion" -> "assistant"
      [] ev \in {"tool_ok", "tool_error", "decode_error", "format_error"} -> "user"
      [] OTHER -> "none"

C28_RolesNow ==
    /\ \A id \in DOMAIN heap : \A i \in DOMAIN heap[id] :
          /\ heap[id][i].role \in MessageRoles
          /\ "tool_call_id" \in DOMAIN heap[id][i] => heap[id][i].role = "tool"
          /\ heap[id][i].role \in {"user", "assistant"}
          /\ "tool_call_id" \notin DOMAIN heap[id][i]
    /\ \A c \in Calls : \A p \in DOMAIN trace[c] :
          RoleAppendedBy(trace[c][p].ev) # "none" =>
              heap[self_messages][trace[c][p].len].role = RoleAppendedBy(trace[c][p].ev)

C28_RolesStay ==
    \A id \in DOMAIN heap : \A i \in DOMAIN heap[id] :
        /\ id \in DOMAIN heap' /\ i \in DOMAIN heap'[id]
        /\ heap'[id][i].role = heap[id][i].role

\* C28: every message process_query puts into a conversation has a role of {user,
\* system, assistant, tool} that never changes afterwards, and a tool_call_id only if its
\* role is tool; process_query makes only user and assistant messages: the seed is user,
\* each completion assistant, each tool result and tool error user, without tool_call_id.
C28_RolesAreClosedAndFixed == []C28_RolesNow /\ [][C28_RolesStay]_vars

\* a call has ended whose conversation holds a seed, an answer with fragments, a tool
\* result and a tool error
C28_Witness ==
    /\ pc[1] = "done"
    /\ PositionsOf(1, "tool_ok") # {}
    /\ PositionsOf(1, "tool_error") # {}
    /\ Len(ReturnedConversation(1)) >= 4
    /\ ReturnedConversation(1)[1].role = "user"
    /\ ReturnedConversation(1)[2].role = "assistant"
    /\ ReturnedConversation(1)[3].role = "user"

(***************************************************************************)
(* The chat handler: EventHandler.on_message of discord_bot/events.py,     *)
(* with the commands of discord_bot/commands.py that process_commands      *)
(* runs first.  Invocation h handles the chat message h; its message id    *)
(* is h.  A step of an invocation is the end of the call it awaits, with   *)
(* the code that follows up to the next awaited call.  Every call of the   *)
(* chat API (reply, send, edit) either returns or raises, whatever its     *)
(* content.  What process_query returns is drawn from conversations that   *)
(* end with an assistant message, short and long.                          *)
(***************************************************************************)
\* "<function="
FunctionMarker == FunctionPrefix

\* line 89
InterimText ==
    <<"I","'","m"," ","u","s","i","n","g"," ","m","y"," ","t","o","o","l","s"," ","t","o"," ",
      "f","i","n","d"," ","i","n","f","o","r","m","a","t","i","o","n"," ","f","o","r"," ","y",
      "o","u","."," ","P","l","e","a","s","e"," ","w","a","i","t"," ","a"," ","m","o","m","e",
      "n","t",".",".",".">>
\* line 119
FallbackText ==
    <<"I","'","m"," ","s","o","r","r","y",","," ","I","'","m"," ","h","a","v","i","n","g"," ",
      "t","r","o","u","b","l","e"," ","p","r","o","c","e","s","s","i","n","g"," ","t","h","a",
      "t"," ","r","e","q","u","e","s","t","."," ","C","o","u","l","d"," ","y","o","u"," ","t",
      "r","y"," ","a","s","k","i","n","g"," ","i","n"," ","a"," ","d","i","f","f","e","r","e",
      "n","t"," ","w","a","y","?">>
\* line 122
ApologyText ==
    <<"S","o","r","r","y",","," ","I"," ","e","n","c","o","u","n","t","e","r","e","d"," ","a",
      "n"," ","e","r","r","o","r"," ","w","h","i","l","e"," ","p","r","o","c","e","s","s","i",
      "n","g"," ","y","o","u","r"," ","r","e","q","u","e","s","t",".">>

\* help_text of help_command (commands.py 37-46)
HelpText ==
    <<"*","*","V","e","s","p","u","c","c","i",".","a","i"," ","D","i","s","c","o","r","d"," ",
      "B","o","t","*","*","\n","\n","I"," ","c","a","n"," ","h","e","l","p"," ","a","n","s","w",
      "e","r"," ","y","o","u","r"," ","q","u","e","s","t","i","o","n","s"," ","a","n","d"," ",
      "p","e","r","f","o","r","m"," ","t","a","s","k","s"," ","u","s","i","n","g"," ","A","I",
      ".","\n","\n","*","*","H","o","w"," ","t","o"," ","u","s","e"," ","m","e",":","*","*",
      "\n","-"," ","M","e","n","t","i","o","n"," ","m","e"," ","w","i","t","h"," ","y","o","u",
      "r"," ","q","u","e","s","t","i","o","n",":"," ",GraveAccent,"@","V","e","s","p","u","c","c","i",
      ".","a","i"," ","w","h","a","t"," ","i","s"," ","t","h","e"," ","w","e","a","t","h","e",
      "r","?",GraveAccent,"\n","-"," ","S","e","n","d"," ","m","e"," ","a"," ","d","i","r","e","c","t",
      " ","m","e","s","s","a","g","e"," ","w","i","t","h"," ","y","o","u","r"," ","q","u","e",
      "s","t","i","o","n","\n","\n","*","*","A","v","a","i","l","a","b","l","e"," ","c","o","m",
      "m","a","n","d","s",":","*","*","\n",GraveAccent,"!","h","e","l","p",GraveAccent," ","-"," ","D","i","s",
      "p","l","a","y"," ","t","h","i","s"," ","h","e","l","p"," ","m","e","s","s","a","g","e",
      "\n",GraveAccent,"!","t","o","o","l","s",GraveAccent," ","-"," ","L","i","s","t"," ","a","v","a","i","l",
      "a","b","l","e"," ","t","o","o","l","s","\n">>
\* commands.py 57
ToolsHead ==
    <<"*","*","A","v","a","i","l","a","b","l","e"," ","T","o","o","l","s",":","*","*","\n","\n">>
\* commands.py 71
ToolsErrorText ==
    <<"S","o","r","r","y",","," ","I"," ","e","n","c","o","u","n","t","e","r","e","d"," ","a",
      "n"," ","e","r","r","o","r"," ","w","h","i","l","e"," ","r","e","t","r","i","e","v","i",
      "n","g"," ","t","h","e"," ","t","o","o","l","s",".">>

\* the literal 2000 of lines 106 and 110, and of commands.py 62 and 66
DiscordLimit == 2000

\* texts of n characters
LongText(n) == [i \in 1..n |-> "x"]

\* the answers process_query may end with: none, short ones without and with the
\* marker (a fragment without braces is no call and ends the loop), and long ones
BotAnswers ==
    {<<>>, TextPlain, TextNoBraces, LongText(DiscordLimit), LongText(DiscordLimit + 1),
     LongText(2 * DiscordLimit + 1), TextNoBraces \o LongText(DiscordLimit)}

\* what process_query returns: the seed and the answer, or a tool round between them
BotConversations ==
    {<<Message("user", QueryHi), Message("assistant", a)>> : a \in BotAnswers}
        \cup {<<Message("user", QueryHi), Message("assistant", TextOneCall),
                 ToolResultMessage(NameSearch, Text42), Message("assistant", TextPlain)>>}

\* fewer of them: an empty answer, a short one, one with the marker, one over the limit
FewBotConversations ==
    {<<Message("user", QueryHi), Message("assistant", a)>> :
        a \in {<<>>, TextPlain, TextNoBraces, LongText(DiscordLimit + 1)}}

\* a tool as list_tools reports it: its name, and its description, a text or None
ListedTool(name, description) == [name |-> name, description |-> description]

\* what list_tools may report: no tool, a tool with a description and one without,
\* and two tools of which one has a description of 2000 characters
BotListings ==
    {<<>>,
     <<ListedTool(NameSearch, PyStr(TextPlain))>>,
     <<ListedTool(NameSearch, PyNone)>>,
     <<ListedTool(NameSearch, PyStr(LongText(DiscordLimit))),
       ListedTool(NameGet2, PyStr(TextPlain))>>}

\* the messages that are commands: "!help", "!tools", and any other text
BotCommands == {"none", "help", "tools"}

\* _get_latest_assistant_message (lines 139-152); a content of the model is a text
_get_latest_assistant_message(messages) ==
    LET found == {i \in DOMAIN messages : messages[i].role = "assistant"}
    IN  IF found = {} THEN <<>>
        ELSE messages[CHOOSE i \in found : \A j \in found : j <= i].content

\* [assistant_response[i:i+2000] for i in range(0, len(assistant_response), 2000)],
\* and the same slicing of tools_text (commands.py 66)
Chunks(text) ==
    [k \in 1..((Len(text) + DiscordLimit - 1) \div DiscordLimit) |->
        SubSeq(text, (k - 1) * DiscordLimit + 1,
               IF k * DiscordLimit < Len(text) THEN k * DiscordLimit ELSE Len(text))]

\* a call of the chat API the handler makes: message.reply, message.channel.send or
\* ctx.send, interim_message.edit
ChatCall(op, content) == [op |-> op, content |-> content]

\* a call of the chat API that has ended: it returned (ok) or raised
Sent(op, content, ok) == [op |-> op, content |-> content, ok |-> ok]

\* the variables of the client, which the handler reaches only through process_query
clientvars == <<app, tools, heap, self_messages, pc, callvars, ret, trace, files, now>>

\* tools_text of tools_command (commands.py 57-59)
RECURSIVE ToolLines(_)
ToolLines(listing) ==
    IF listing = <<>> THEN <<>>
    ELSE <<"*","*">> \o Head(listing).name \o <<"*","*",":"," ">>
           \o StrOf(Head(listing).description).s \o <<"\n","\n">>
           \o ToolLines(Tail(listing))

tools_text(listing) == ToolsHead \o ToolLines(listing)

\* commands.py 62-68: the list is sent whole, or in pieces of 2000 characters
SendTools(text) ==
    IF Len(text) <= DiscordLimit
    THEN <<ChatCall("send", text)>>
    ELSE [k \in DOMAIN Chunks(text) |-> ChatCall("send", Chunks(text)[k])]

\* lines 104-119: the answer is sent, whole or in chunks, or the fallback text
SendDirectly(text) ==
    IF text # <<>>
    THEN IF Len(text) <= DiscordLimit
         THEN <<ChatCall("reply", text)>>
         ELSE [k \in DOMAIN Chunks(text) |->
                  ChatCall(IF k = 1 THEN "reply" ELSE "send", Chunks(text)[k])]
    ELSE <<ChatCall("reply", FallbackText)>>

\* the call invocation h awaits has ended: it goes to discord_out
Deliver(h, ok) ==
    discord_out' = [discord_out EXCEPT ![h] =
                       Append(@, Sent(Head(outbox[h]).op, Head(outbox[h]).content, ok))]

\* lines 61-81: process_commands has returned; a message that is being processed is
\* left alone, any other is entered into processing_queries and its text goes to
\* process_query
EnterProcessing(h) ==
    IF h \in processing_queries
    THEN /\ handler' = [handler EXCEPT ![h] = "skipped"]
         /\ UNCHANGED processing_queries
    ELSE /\ processing_queries' = processing_queries \cup {h}
         /\ handler' = [handler EXCEPT ![h] = "await_query"]

\* lines 123-125: the finally block takes the id out of processing_queries, and the
\* handler is over: it returns, or it ends with the exception the apology raised
Finally(h, raising) ==
    /\ processing_queries' = processing_queries \ {h}
    /\ handler' = [handler EXCEPT ![h] = IF raising THEN "raised" ELSE "done"]

\* lines 52-81, up to the first awaited call: a chat message arrives; a message of a
\* bot is ignored.  process_commands runs the command of the message: "!help" sends
\* the help text, "!tools" asks the tool server for its tools; a message that is no
\* command goes on to line 61
OnMessage(h, author_is_bot, command) ==
    /\ app.bot_started
    /\ handler[h] = "idle"
    /\ IF author_is_bot
       THEN /\ handler' = [handler EXCEPT ![h] = "ignored"]
            /\ UNCHANGED <<processing_queries, outbox>>
       ELSE IF command = "help"
       THEN /\ outbox' = [outbox EXCEPT ![h] = <<ChatCall("send", HelpText)>>]
            /\ handler' = [handler EXCEPT ![h] = "command"]
            /\ UNCHANGED processing_queries
       ELSE IF command = "tools"
       THEN /\ handler' = [handler EXCEPT ![h] = "await_tools"]
            /\ UNCHANGED <<processing_queries, outbox>>
       ELSE /\ EnterProcessing(h)
            /\ UNCHANGED outbox
    /\ UNCHANGED <<assistant_response, discord_out, clientvars>>

\* commands.py 54-68: get_mcp_tools returns, and the first piece of the list is sent
ToolsListed(h, listing) ==
    /\ handler[h] = "await_tools"
    /\ outbox' = [outbox EXCEPT ![h] = SendTools(tools_text(listing))]
    /\ handler' = [handler EXCEPT ![h] = "tools_send"]
    /\ UNCHANGED <<processing_queries, assistant_response, discord_out, clientvars>>

\* commands.py 69-71: get_mcp_tools raises, and the error text is sent
ToolsListingRaises(h) ==
    /\ handler[h] = "await_tools"
    /\ outbox' = [outbox EXCEPT ![h] = <<ChatCall("send", ToolsErrorText)>>]
    /\ handler' = [handler EXCEPT ![h] = "command"]
    /\ UNCHANGED <<processing_queries, assistant_response, discord_out, clientvars>>

\* commands.py 62-71: a ctx.send of the tool list ends.  When it returned, the next
\* piece is sent, or the command is over, process_commands returns and the handler
\* goes on at line 61; when it raised, the except of line 69 sends the error text
ToolsSent(h, raised) ==
    /\ handler[h] = "tools_send"
    /\ Deliver(h, ~raised)
    /\ IF raised
       THEN /\ outbox' = [outbox EXCEPT ![h] = <<ChatCall("send", ToolsErrorText)>>]
            /\ handler' = [handler EXCEPT ![h] = "command"]
            /\ UNCHANGED processing_queries
       ELSE /\ outbox' = [outbox EXCEPT ![h] = Tail(@)]
            /\ IF Len(outbox[h]) > 1
               THEN UNCHANGED <<handler, processing_queries>>
               ELSE EnterProcessing(h)
    /\ UNCHANGED <<assistant_response, clientvars>>

\* the ctx.send of help_command (commands.py 47) or of the error text (commands.py
\* 71) ends, and with it the command: nothing in commands.py handles an exception of
\* these two calls.  The command framework of the chat library, which called the
\* command, reports an exception of a command to its error event and does not raise
\* it again, so process_commands returns either way and the handler goes on at line 61
CommandSent(h, raised) ==
    /\ handler[h] = "command"
    /\ Deliver(h, ~raised)
    /\ outbox' = [outbox EXCEPT ![h] = <<>>]
    /\ EnterProcessing(h)
    /\ UNCHANGED <<assistant_response, clientvars>>

\* lines 81-119: process_query returns; with the marker in the answer the interim text
\* is sent, without it the answer, or its first chunk, or the fallback text
FirstQueryReturns(h, messages) ==
    /\ handler[h] = "await_query"
    /\ LET response == _get_latest_assistant_message(messages)
       IN  /\ assistant_response' = [assistant_response EXCEPT ![h] = response]
           /\ IF Contains(response, FunctionMarker)
              THEN /\ outbox' = [outbox EXCEPT ![h] = <<ChatCall("reply", InterimText)>>]
                   /\ handler' = [handler EXCEPT ![h] = "interim"]
              ELSE /\ outbox' = [outbox EXCEPT ![h] = SendDirectly(response)]
                   /\ handler' = [handler EXCEPT ![h] = "answer"]
    /\ UNCHANGED <<processing_queries, discord_out, clientvars>>

\* lines 89-95 and 120-122: the reply with the interim text ends.  When it returned,
\* the query is processed again after the sleep; when it raised, the handler of line
\* 120 sends the apology
InterimSent(h, raised) ==
    /\ handler[h] = "interim"
    /\ Deliver(h, ~raised)
    /\ IF raised
       THEN /\ outbox' = [outbox EXCEPT ![h] = <<ChatCall("reply", ApologyText)>>]
            /\ handler' = [handler EXCEPT ![h] = "apology"]
       ELSE /\ outbox' = [outbox EXCEPT ![h] = <<>>]
            /\ handler' = [handler EXCEPT ![h] = "await_retry"]
    /\ UNCHANGED <<processing_queries, assistant_response, clientvars>>

\* lines 95-101: the second process_query returns and the interim message is edited
\* to the new answer, whole
SecondQueryReturns(h, messages) ==
    /\ handler[h] = "await_retry"
    /\ LET response == _get_latest_assistant_message(messages)
       IN  /\ assistant_response' = [assistant_response EXCEPT ![h] = response]
           /\ outbox' = [outbox EXCEPT ![h] = <<ChatCall("edit", response)>>]
    /\ handler' = [handler EXCEPT ![h] = "answer"]
    /\ UNCHANGED <<processing_queries, discord_out, clientvars>>

\* lines 101-125: the reply, send or edit of the answer ends.  When it returned, the
\* next chunk is sent, or the handler is over; when it raised, whatever the content,
\* the handler of line 120 sends the apology
AnswerSent(h, raised) ==
    /\ handler[h] = "answer"
    /\ Deliver(h, ~raised)
    /\ IF raised
       THEN /\ outbox' = [outbox EXCEPT ![h] = <<ChatCall("reply", ApologyText)>>]
            /\ handler' = [handler EXCEPT ![h] = "apology"]
            /\ UNCHANGED processing_queries
       ELSE /\ outbox' = [outbox EXCEPT ![h] = Tail(@)]
            /\ IF Len(outbox[h]) > 1
               THEN UNCHANGED <<handler, processing_queries>>
               ELSE Finally(h, FALSE)
    /\ UNCHANGED <<assistant_response, clientvars>>

\* lines 120-122: a call awaited inside the try raises while the handler waits for
\* process_query (the typing indicator of line 76, process_query itself, the sleep);
\* the apology is sent
ProcessingRaises(h) ==
    /\ handler[h] \in {"await_query", "await_retry"}
    /\ outbox' = [outbox EXCEPT ![h] = <<ChatCall("reply", ApologyText)>>]
    /\ handler' = [handler EXCEPT ![h] = "apology"]
    /\ UNCHANGED <<processing_queries, assistant_response, discord_out, clientvars>>

\* lines 122-125: the reply with the apology ends, and the handler is over.  The
\* reply is made inside the except block: when it raises nothing handles it, the
\* finally block runs and on_message ends with that exception
ApologySent(h, raised) ==
    /\ handler[h] = "apology"
    /\ Deliver(h, ~raised)
    /\ outbox' = [outbox EXCEPT ![h] = <<>>]
    /\ Finally(h, raised)
    /\ UNCHANGED <<assistant_response, clientvars>>

\* the inputs of invocation h: the first takes every command and, for a message that
\* is no command, every conversation; the second runs beside it on fewer inputs
CommandsOf(h) == IF h = 1 THEN BotCommands ELSE {"none"}
ConversationsOf(h) ==
    IF h = 1 /\ (discord_out[h] = <<>> \/ discord_out[h][1].op = "reply")
    THEN BotConversations
    ELSE FewBotConversations

NextBot ==
    \/ ConnectToServer(<<ToolSearch>>, TRUE, FALSE)
    \/ \E h \in Handlers, author_is_bot \in BOOLEAN : \E command \in CommandsOf(h) :
          OnMessage(h, author_is_bot, command)
    \/ \E h \in Handlers, listing \in BotListings : ToolsListed(h, listing)
    \/ \E h \in Handlers : ToolsListingRaises(h)
    \/ \E h \in Handlers, raised \in BOOLEAN : ToolsSent(h, raised)
    \/ \E h \in Handlers, raised \in BOOLEAN : CommandSent(h, raised)
    \/ \E h \in Handlers : \E messages \in ConversationsOf(h) : FirstQueryReturns(h, messages)
    \/ \E h \in Handlers, raised \in BOOLEAN : InterimSent(h, raised)
    \/ \E h \in Handlers : \E messages \in ConversationsOf(h) : SecondQueryReturns(h, messages)
    \/ \E h \in Handlers, raised \in BOOLEAN : AnswerSent(h, raised)
    \/ \E h \in Handlers : ProcessingRaises(h)
    \/ \E h \in Handlers, raised \in BOOLEAN : ApologySent(h, raised)

SpecBot == Init /\ [][NextBot]_vars

(***************************************************************************)
(* C29                                                                     *)
(***************************************************************************)
\* the replies of invocation h that reached the author: the calls of message.reply
\* that returned
RepliesOf(h) ==
    {i \in DOMAIN discord_out[h] : discord_out[h][i].op = "reply" /\ discord_out[h][i].ok}

\* the calls of the chat API of invocation h that raised inside the try block
RaisedInTry(h) ==
    {i \in DOMAIN discord_out[h] :
        /\ ~discord_out[h][i].ok
        /\ \/ discord_out[h][i].op \in {"reply", "edit"}
           \/ \E j \in 1..(i - 1) : discord_out[h][j].op = "reply"}

\* the first reply of invocation h (it has one), and the last call it made
FirstReply(h) ==
    discord_out[h][CHOOSE i \in RepliesOf(h) : \A j \in RepliesOf(h) : i <= j]
LastSent(h) == discord_out[h][Len(discord_out[h])]

\* the handler of invocation h is over: it returned or it ended with an exception
Ended(h) == handler[h] \in {"done", "raised"}

\* what C29 says of an invocation that is over
C29_AtEnd(h) ==
    \* the author has got a reply
    /\ RepliesOf(h) # {}
    /\ h \notin processing_queries
    \* what went out before the first reply is the output of a command
    /\ \A i \in DOMAIN discord_out[h] :
          (\A j \in RepliesOf(h) : i < j) /\ discord_out[h][i].ok
              => discord_out[h][i].op = "send"
    \* on the direct path the first reply is the answer, or the fallback when it is empty
    /\ FirstReply(h).content \notin {InterimText, ApologyText} =>
          /\ assistant_response[h] = <<>> => FirstReply(h).content = FallbackText
          /\ assistant_response[h] # <<>> =>
                FirstReply(h).content =
                    SubSeq(assistant_response[h], 1, Len(FirstReply(h).content))
    \* when a call inside the try raised, the apology is the last reply
    /\ (RaisedInTry(h) # {} \/ FirstReply(h).content = ApologyText) =>
          LastSent(h) = Sent("reply", ApologyText, TRUE)
    /\ FirstReply(h).content \in {InterimText, ApologyText} =>
          \/ LastSent(h) = Sent("reply", ApologyText, TRUE)
          \/ LastSent(h) = Sent("edit", assistant_response[h], TRUE)

\* C29: for every message of an author that is no bot, on_message sends at least one
\* reply, on every path: the answer when it is not empty, the fallback text when it
\* is, the apology when processing raised; and when the handler has ended, on any
\* path, the message's id is not in processing_queries.  ("Eventually" is stated at
\* the end of the handler: an invocation that is over has done all it will ever do.)
C29_AlwaysSomeReply ==
    \A h \in Handlers :
        /\ Ended(h) => C29_AtEnd(h)
        /\ handler[h] \in {"idle", "ignored", "done", "raised"} => h \notin processing_queries

\* the part of C29 about the id: an invocation that is over, on any path, has left
\* its id out of processing_queries
C29_IdIsDiscarded ==
    \A h \in Handlers :
        handler[h] \in {"idle", "ignored", "done", "raised"} => h \notin processing_queries

\* the author is without a reply only when the reply with the apology raised, and
\* the handler always made at least one call of message.reply
C29_NoReplyOnlyWhenTheApologyRaised ==
    \A h \in Handlers :
        Ended(h) =>
            /\ \E i \in DOMAIN discord_out[h] : discord_out[h][i].op = "reply"
            /\ RepliesOf(h) = {} =>
                  /\ handler[h] = "raised"
                  /\ LastSent(h) = Sent("reply", ApologyText, FALSE)

\* C29 for the invocations whose reply with the apology, if made, returned
C29_WhenTheApologyIsDelivered ==
    \A h \in Handlers : handler[h] = "done" => C29_AtEnd(h)

(***************************************************************************)
(* C30                                                                     *)
(***************************************************************************)
\* the contents, in send order, joined
RECURSIVE Concatenated(_)
Concatenated(out) ==
    IF out = <<>> THEN <<>> ELSE Head(out).content \o Concatenated(Tail(out))

\* what C30 says of what invocation h has sent
C30_Holds(h) ==
    \* nothing that is sent or edited has more than 2000 characters
    /\ \A i \in DOMAIN discord_out[h] : Len(discord_out[h][i].content) <= DiscordLimit
    \* a long answer is sent in chunks: the first a reply, the others channel messages,
    \* which together are the answer (when no call of the try block raised: what a
    \* raising call leaves unsent is C29's matter)
    /\ (/\ handler[h] = "done"
        /\ RaisedInTry(h) = {}
        /\ Len(assistant_response[h]) > DiscordLimit) =>
          \E from \in DOMAIN discord_out[h] :
              LET chunks == SubSeq(discord_out[h], from, Len(discord_out[h]))
              IN  /\ Len(chunks) >= 2
                  /\ chunks[1].op \in {"reply", "edit"}
                  /\ \A k \in 2..Len(chunks) : chunks[k].op = "send"
                  /\ Concatenated(chunks) = assistant_response[h]

\* C30: every content the handler sends or edits for an answer has at most 2000
\* characters: a longer answer goes out in consecutive chunks of at most 2000 characters
\* that together are the answer, the first as a reply and the others as channel
\* messages; also on the path taken when the answer contains "<function=".
C30_NothingOverTheLimit == \A h \in Handlers : C30_Holds(h)

\* the same, for the invocations that did not take the path of "<function="
C30_OnTheDirectPath ==
    \A h \in Handlers :
        (\A i \in DOMAIN discord_out[h] : discord_out[h][i].content # InterimText)
            => C30_Holds(h)

\* an answer of 4001 characters went out in three chunks
C30_ThreeChunksReached ==
    \E h \in Handlers :
        /\ handler[h] = "done"
        /\ Len(assistant_response[h]) = 2 * DiscordLimit + 1
        /\ Len(discord_out[h]) = 3
        /\ discord_out[h][1].op = "reply" /\ Len(discord_out[h][1].content) = DiscordLimit
        /\ discord_out[h][3].op = "send" /\ Len(discord_out[h][3].content) = 1

====
